---------------------------- MODULE Spec2Model ----------------------------
(***************************************************************************)
(* Multi-clip stitching orchestrator of jhcook/image_to_video.             *)
(*                                                                         *)
(* The repository holds two copies of the orchestrator:                    *)
(*   video_gen/video_generator.py  (the one the CLI and the tests call)    *)
(*   video_gen/video_stitching.py  (the refactored copy)                   *)
(* Both are modelled; the variable impl says which copy a run executes.    *)
(* A run is one call of generate_video_sequence_with_veo3_stitching; the   *)
(* clip generator it calls is modelled down to the HTTP retry loop of the  *)
(* provider client (Google Veo3APIClient or RunwayVeoClient).  A run may    *)
(* also be one call of generate_video_with_runway, the single-clip Gen-4   *)
(* generator, which drives RunwayGen4Client; the variable call says which. *)
(*                                                                         *)
(* Further specifications apply the helper functions on their own          *)
(* (PureSpec), run the request loop of one provider client outside the     *)
(* orchestrator (RequestSpec: the Sora, Azure, Runway and Google clients)  *)
(* and run poll_task of one Runway client (PollSpec).                      *)
(***************************************************************************)
EXTENDS Integers, Sequences, FiniteSets, TLC

(***************************************************************************)
(* Bounds of the model                                                     *)
(***************************************************************************)
MaxClips == 3        \* largest number of prompts of a run
MaxTransient == 2    \* the provider answers a request with a retryable
                     \* failure only while the attempt counter is below this
MaxBackoffs == 3     \* the same, in the runs that follow the retries of a call
MaxAttempt == 6      \* largest retry count calculate_retry_delay is applied to
MaxPollErrors == 3   \* polls of one task that end in a transient error

(***************************************************************************)
(* Values                                                                  *)
(***************************************************************************)
\* the public function a run is a call of
Calls == {"stitching", "runway_gen4"}

Impls == {"video_generator", "video_stitching"}
Providers == {"veo3", "runway"}

\* a file of the filesystem: absent, present with 0 bytes, present with data
FileStates == {"missing", "empty", "data"}

Exists(f) == f # "missing"
StSize(f) == IF f = "data" THEN 1 ELSE 0

\* model names are character sequences so that startswith is computed
NoModel == [present |-> FALSE, name |-> <<>>]
Models == { NoModel,
            [present |-> TRUE, name |-> <<>>],
            [present |-> TRUE, name |-> <<"v", "e", "o", "3">>],
            [present |-> TRUE, name |-> <<"g", "e", "n", "4">>] }

StartsWith(s, prefix) ==
    /\ Len(s) >= Len(prefix)
    /\ SubSeq(s, 1, Len(prefix)) = prefix

\* a path: the naming family, the 1-based clip number n of
\* "{prefix}_clip_{n}.mp4" (or the position in the caller's list), and whether
\* the string is in pathlib's normal form ("./a.mp4" is not, "a.mp4" is)
Path(prefix, n, norm) == [prefix |-> prefix, n |-> n, norm |-> norm]

\* str(Path(p)): pathlib drops "./" and doubled separators
StrPath(p) == [p EXCEPT !.norm = TRUE]

\* the last-frame image extracted from a clip; None is the absent frame
None == [png |-> 0]
FramePng(video_path) == [png |-> video_path.n]

NoPath == Path("none", 0, TRUE)

VARIABLES
    call,          \* the function called: the orchestrator or the Gen-4 generator
    impl,          \* which copy of the orchestrator runs
    provider,      \* argument provider
    model,         \* argument model
    config,        \* argument config: "given", or absent with the
                   \* credentials in the environment ("absent_env_ok") or
                   \* not ("absent_env_missing"); "resolved" once the call
                   \* holds its configuration object
    N,             \* len(prompts)
    out_paths,     \* argument out_paths (<<>> when None or empty)
    refs,          \* file_paths_list gives every clip a reference image
    resume,        \* argument resume
    delay,         \* argument delay_between_clips
    fs,            \* clip number -> state of that clip's output file
    fs0,           \* the filesystem when the call started
    pc,            \* position of the orchestrator
    idx,           \* loop variable idx
    start_idx,     \* start_idx
    outputs,       \* outputs
    last_frame,    \* last_frame_path / current_last_frame
    video_path,    \* value returned by the clip generator
    exc,           \* exception in flight, "none" when there is none
    origin,        \* the step that raised exc
    cpc,           \* position of the provider client
    attempt,       \* attempt (Google) / retry_count (Runway)
    lastResp,      \* outcome of the last HTTP request of the client
    credsRefreshable, \* get_google_credentials() would return a token
    genCalls,      \* log of the clip-generator invocations
    sends,         \* requests sent by the current generator call
    waits,         \* number of inter-clip waits started in this run
    panSeen,       \* the current call received a 400, 401 or 404 answer
    fatalSeen,     \* the current call received a 400 or 404 answer, or a
                   \* 401 that no credential refresh can cure
    cancelled,     \* the user interrupted the run (Ctrl-C)
    extractCalls,  \* log of the invocations of extract_last_frame_as_png:
                   \* the video path and whether ffmpeg succeeded
    retry,         \* config.retry_base_delay and config.retry_max_delay
    transients,    \* retryable failures the provider may answer one call with
    delays,        \* log of the backoff delays the current generator call
                   \* computed: the attempt number and the delay before jitter
    prevRetries,   \* retries the previous generator call needed, kept until
                   \* the first backoff of the current call is over
    diag,          \* the clip count logged when the run stops on credits
    fn,            \* a helper function applied on its own, "none" in a run
    arg,           \* its arguments
    ret,           \* its locals and result, NotYet before it is applied
    client,        \* a provider client running one of its loops on its
                   \* own, "none" in a run of the orchestrator
    rpc,           \* position of that loop
    retryCount,    \* its retry_count (attempt in the Google client)
    answer,        \* outcome of its last HTTP request
    log,           \* log of the backoffs of the request loop
    task,          \* state of the polled task at the service
    errors,        \* timeouts and connection errors the polls have met
    raised         \* the exception the loop ended with, "none" otherwise

vars == << call, impl, provider, model, config, N, out_paths, refs, resume, delay,
           fs, fs0, pc, idx, start_idx, outputs, last_frame, video_path,
           exc, origin, cpc, attempt, lastResp, credsRefreshable,
           genCalls, sends, waits, panSeen, fatalSeen, cancelled,
           extractCalls, retry, transients, delays, prevRetries, diag,
           fn, arg, ret, client, rpc, retryCount, answer, log, task,
           errors, raised >>

inputs == << call, impl, provider, model, N, out_paths, refs, resume, delay, fs0,
             retry, transients >>

pureVars == << fn, arg, ret >>

loopVars == << client, rpc, retryCount, answer, log, task, errors, raised >>

(***************************************************************************)
(* Pure helpers of video_utils.py / video_stitching.py                     *)
(***************************************************************************)
DelayBetweenClips == 10

VeoPrefix == <<"v", "e", "o">>

\* mutant: any model name that is given passes
validate_stitch_model_any_name(m) ==
    ~ (~m.present \/ m.name = <<>>)

\* mutant: a model that is not given passes
validate_stitch_model_absent_ok(m) ==
    ~m.present \/ StartsWith(m.name, VeoPrefix)

\* validate_stitch_model: TRUE when it returns, FALSE when it raises ValueError
validate_stitch_model(m) ==
    ~ ( (~m.present \/ m.name = <<>>) \/ ~StartsWith(m.name, VeoPrefix) )

DefaultPrefix(prov) == IF prov = "veo3" THEN "veo3" ELSE "runway_veo"

\* mutant: the default paths are numbered from 0
build_expected_out_paths_zero_based(count, op, prov) ==
    IF op # <<>> THEN op
    ELSE [k \in 1..count |-> Path(DefaultPrefix(prov), k - 1, TRUE)]

\* build_expected_out_paths(count, out_paths, provider)
build_expected_out_paths(count, op, prov) ==
    IF op # <<>> THEN op
    ELSE [k \in 1..count |-> Path(DefaultPrefix(prov), (k - 1) + 1, TRUE)]

\* the loop of compute_resume_state, from position k on: a path that exists
\* with a size above zero is appended and becomes last_done; the first path
\* that does not ends the loop
RECURSIVE ScanLoop_exists_only(_, _, _, _)
ScanLoop_exists_only(expected_paths, files, k, st) ==
    IF k > Len(expected_paths) THEN st
    ELSE LET p == expected_paths[k]
         IN  IF Exists(files[p.n])
             THEN ScanLoop_exists_only(expected_paths, files, k + 1,
                      [outputs |-> Append(st.outputs, p), last_done |-> k - 1])
             ELSE st

RECURSIVE ScanLoop_skip_gap(_, _, _, _)
ScanLoop_skip_gap(expected_paths, files, k, st) ==
    IF k > Len(expected_paths) THEN st
    ELSE LET p == expected_paths[k]
         IN  IF Exists(files[p.n]) /\ StSize(files[p.n]) > 0
             THEN ScanLoop_skip_gap(expected_paths, files, k + 1,
                      [outputs |-> Append(st.outputs, p), last_done |-> k - 1])
             ELSE ScanLoop_skip_gap(expected_paths, files, k + 1, st)

RECURSIVE ScanLoop(_, _, _, _)
ScanLoop(expected_paths, files, k, st) ==
    IF k > Len(expected_paths) THEN st
    ELSE LET p == expected_paths[k]
         IN  IF Exists(files[p.n]) /\ StSize(files[p.n]) > 0
             THEN ScanLoop(expected_paths, files, k + 1,
                      [outputs |-> Append(st.outputs, p), last_done |-> k - 1])
             ELSE st

\* mutant: the frame is extracted from the first accepted clip
compute_resume_state_first_frame(expected_paths, files, extractOk) ==
    LET scan == ScanLoop(expected_paths, files, 1,
                         [outputs |-> <<>>, last_done |-> -1])
    IN  [ outputs |-> scan.outputs,
          start_idx |-> scan.last_done + 1,
          last_frame_path |->
              IF scan.last_done >= 0 /\ extractOk
              THEN FramePng(expected_paths[1])
              ELSE None,
          extract_calls |->
              IF scan.last_done >= 0
              THEN << [ path |-> expected_paths[1], ok |-> extractOk ] >>
              ELSE <<>> ]

\* mutant: the loop resumes at the last accepted clip instead of after it
compute_resume_state_off_by_one(expected_paths, files, extractOk) ==
    LET scan == ScanLoop(expected_paths, files, 1,
                         [outputs |-> <<>>, last_done |-> -1])
    IN  [ outputs |-> scan.outputs,
          start_idx |-> IF scan.last_done >= 0 THEN scan.last_done ELSE 0,
          last_frame_path |->
              IF scan.last_done >= 0 /\ extractOk
              THEN FramePng(expected_paths[scan.last_done + 1])
              ELSE None,
          extract_calls |->
              IF scan.last_done >= 0
              THEN << [ path |-> expected_paths[scan.last_done + 1],
                        ok |-> extractOk ] >>
              ELSE <<>> ]

\* compute_resume_state(expected_paths); extractOk says whether ffmpeg
\* succeeds on the last accepted clip
compute_resume_state(expected_paths, files, extractOk) ==
    LET scan == ScanLoop(expected_paths, files, 1,
                         [outputs |-> <<>>, last_done |-> -1])
    IN  [ outputs |-> scan.outputs,
          start_idx |-> scan.last_done + 1,
          last_frame_path |->
              IF scan.last_done >= 0 /\ extractOk
              THEN FramePng(expected_paths[scan.last_done + 1])
              ELSE None,
          extract_calls |->
              IF scan.last_done >= 0
              THEN << [ path |-> expected_paths[scan.last_done + 1],
                        ok |-> extractOk ] >>
              ELSE <<>> ]

\* the loop of compute_resume_state reaches position j (all paths before it
\* were accepted) and Path.exists() or Path.stat() raises OSError there: the
\* name is too long, a directory of the path may not be searched, the file
\* vanished between the two calls
probe_raises(expected_paths, files, j) ==
    /\ j \in 1..Len(expected_paths)
    /\ \A i \in 1..(j - 1) :
           Exists(files[expected_paths[i].n]) /\ StSize(files[expected_paths[i].n]) > 0

\* mutant: the frame found by the scanner is dropped
initialize_stitching_state_drop_frame(res, expected_paths, files, extractOk) ==
    IF res THEN [compute_resume_state(expected_paths, files, extractOk)
                     EXCEPT !.last_frame_path = None]
    ELSE [outputs |-> <<>>, start_idx |-> 0, last_frame_path |-> None,
          extract_calls |-> <<>>]

\* mutant: the files are scanned whether resume is set or not
initialize_stitching_state_always_scan(res, expected_paths, files, extractOk) ==
    compute_resume_state(expected_paths, files, extractOk)

\* mutant: the resume state is computed but the loop restarts at index 0
initialize_stitching_state_restart(res, expected_paths, files, extractOk) ==
    IF res THEN [compute_resume_state(expected_paths, files, extractOk)
                     EXCEPT !.start_idx = 0]
    ELSE [outputs |-> <<>>, start_idx |-> 0, last_frame_path |-> None,
          extract_calls |-> <<>>]

\* mutant: the resume flag is ignored
initialize_stitching_state_fresh(res, expected_paths, files, extractOk) ==
    [outputs |-> <<>>, start_idx |-> 0, last_frame_path |-> None,
     extract_calls |-> <<>>]

\* _initialize_stitching_state(resume, expected_paths)
initialize_stitching_state(res, expected_paths, files, extractOk) ==
    IF res THEN compute_resume_state(expected_paths, files, extractOk)
    ELSE [outputs |-> <<>>, start_idx |-> 0, last_frame_path |-> None,
          extract_calls |-> <<>>]

\* out_paths[idx] of prepare_clip_params raises IndexError: the caller's list
\* has no entry for clip i
prepare_clip_params_raises(i, op) == op # <<>> /\ i >= Len(op)

\* mutant: the caller's paths are ignored
prepare_clip_params_default_path(i, has_refs, last_frame_path, op, prov) ==
    [ reference_images |-> has_refs,
      source_frame |-> IF i > 0 THEN last_frame_path ELSE None,
      out_path |-> Path(DefaultPrefix(prov), i + 1, TRUE) ]

\* mutant: every clip is written to the first output path
prepare_clip_params_first_path(i, has_refs, last_frame_path, op, prov) ==
    [ reference_images |-> has_refs,
      source_frame |-> IF i > 0 THEN last_frame_path ELSE None,
      out_path |-> IF op # <<>> THEN op[1]
                   ELSE Path(DefaultPrefix(prov), 1, TRUE) ]

\* mutant: no clip is given the last frame of its predecessor
prepare_clip_params_no_chain(i, has_refs, last_frame_path, op, prov) ==
    [ reference_images |-> has_refs,
      source_frame |-> None,
      out_path |-> IF op # <<>> THEN op[i + 1]
                   ELSE Path(DefaultPrefix(prov), i + 1, TRUE) ]

\* prepare_clip_params(idx, file_paths_list, last_frame_path, out_paths, provider)
prepare_clip_params(i, has_refs, last_frame_path, op, prov) ==
    [ reference_images |-> has_refs,
      source_frame |-> IF i > 0 THEN last_frame_path ELSE None,
      out_path |-> IF op # <<>> THEN op[i + 1]
                   ELSE Path(DefaultPrefix(prov), i + 1, TRUE) ]

\* mutant: the wait also follows the last clip
sleeps_between_clips_after_last(i, total, delay_seconds) ==
    i < total /\ delay_seconds > 0

\* sleep_between_clips: does it sleep after clip i of total
sleeps_between_clips(i, total, delay_seconds) ==
    i < total - 1 /\ delay_seconds > 0

(***************************************************************************)
(* Backoff delays: retry_utils.py and Veo3APIClient                        *)
(***************************************************************************)
Min(a, b) == IF a <= b THEN a ELSE b
Max(a, b) == IF a >= b THEN a ELSE b

RECURSIVE Pow2(_)
Pow2(n) == IF n <= 0 THEN 1 ELSE 2 * Pow2(n - 1)

\* delays are floats in the code and whole ticks here; a tick is small enough
\* for base_delay / 2 and for a jitter of hundredths of hundredths of a
\* delay (a multiple of 10000 ticks, half a second) to be whole
TicksPerSecond == 20000

\* BaseConfig.retry_jitter_percent, in hundredths
RetryJitterPercent == 20

\* BaseConfig.retry_base_delay and BaseConfig.retry_max_delay, in seconds
DefaultRetry == [base_delay |-> 30, max_delay |-> 300]

\* configurations a caller may pass
RetrySettings == { DefaultRetry,
                   [base_delay |-> 30, max_delay |-> 60],
                   [base_delay |-> 1, max_delay |-> 300] }

\* mutant: the delay is not clamped to max_delay
retry_delay_unclamped(retry_count, base_delay, max_delay) ==
    LET e == Min(retry_count - 1, 4)
    IN  IF e >= 0 THEN base_delay * Pow2(e) * TicksPerSecond
        ELSE (base_delay * TicksPerSecond) \div Pow2(0 - e)

\* calculate_retry_delay, the local delay:
\* min(base_delay * (2 ** min(retry_count - 1, 4)), max_delay), where
\* 2 ** -1 is 0.5
retry_delay(retry_count, base_delay, max_delay) ==
    LET e == Min(retry_count - 1, 4)
        grown == IF e >= 0 THEN base_delay * Pow2(e) * TicksPerSecond
                 ELSE (base_delay * TicksPerSecond) \div Pow2(0 - e)
    IN  Min(grown, max_delay * TicksPerSecond)

\* mutant: the result is not floored at one second
calculate_retry_delay_no_floor(retry_count, base_delay, max_delay, jitter_percent, random) ==
    LET delay_ == retry_delay(retry_count, base_delay, max_delay)
        jitter == (delay_ \div 10000) * jitter_percent * (random - 50)
    IN  [ done |-> TRUE, retry_count |-> retry_count,
          delay |-> delay_, jitter |-> jitter,
          actual_delay |-> delay_ + jitter ]

\* calculate_retry_delay(retry_count, base_delay, max_delay, jitter_percent):
\* its locals and the value it returns; jitter_percent is in hundredths and
\* random is random.random() in hundredths
calculate_retry_delay(retry_count, base_delay, max_delay, jitter_percent, random) ==
    LET delay_ == retry_delay(retry_count, base_delay, max_delay)
        jitter == (delay_ \div 10000) * jitter_percent * (random - 50)
    IN  [ done |-> TRUE, retry_count |-> retry_count,
          delay |-> delay_, jitter |-> jitter,
          actual_delay |-> Max(1 * TicksPerSecond, delay_ + jitter) ]

\* mutant: the delay does not grow with the attempt
calculate_backoff_delay_constant(att, base_delay, max_delay, jitter) ==
    LET base == Min(base_delay, max_delay) * TicksPerSecond
    IN  [ base_delay |-> base, delay |-> (base * jitter) \div 100 ]

\* mutant: the growth stops at sixteen times the base delay, as in
\* calculate_retry_delay
calculate_backoff_delay_capped_growth(att, base_delay, max_delay, jitter) ==
    LET base == Min(base_delay * Pow2(Min(att, 4)), max_delay) * TicksPerSecond
    IN  [ base_delay |-> base, delay |-> (base * jitter) \div 100 ]

\* Veo3APIClient._calculate_backoff_delay(attempt); jitter is
\* random.uniform(0.8, 1.2) in hundredths
calculate_backoff_delay(att, base_delay, max_delay, jitter) ==
    LET base == Min(base_delay * Pow2(att), max_delay) * TicksPerSecond
    IN  [ base_delay |-> base, delay |-> (base * jitter) \div 100 ]

\* the delay before jitter of the backoff a client computes at attempt att
backoff_delay(prov, att, settings) ==
    IF prov = "veo3"
    THEN calculate_backoff_delay(att, settings.base_delay,
                                 settings.max_delay, 100).base_delay
    ELSE calculate_retry_delay(att, settings.base_delay, settings.max_delay,
                               RetryJitterPercent, 50).delay

\* mutant: the retry counter of the previous call is carried over
initial_retry_count_carried(previous) == previous

\* attempt = 0 / retry_count = 0 on entry of _make_request_with_retry
initial_retry_count(previous) == 0

\* "after clip %d/%d" of the credits diagnostic: idx + 1, len(prompts)
credits_diagnostic(i, total) == [clip |-> i + 1, total |-> total]

NoDiag == [clip |-> 0 - 1, total |-> 0 - 1]

\* a helper function applied on its own: before it ran
NotYet == [done |-> FALSE]
NoArg == [none |-> TRUE]

(***************************************************************************)
(* Initial states: one call of the orchestrator on some filesystem         *)
(***************************************************************************)
ExplicitPaths(n) == { [k \in 1..n |-> Path("user", k, b)] : b \in BOOLEAN }

\* nothing has run yet
InitState ==
    /\ pc = "init"
    /\ idx = 0
    /\ start_idx = 0
    /\ outputs = <<>>
    /\ last_frame = None
    /\ video_path = NoPath
    /\ exc = "none"
    /\ origin = "none"
    /\ cpc = "idle"
    /\ attempt = 0
    /\ lastResp = "none"
    /\ credsRefreshable = FALSE
    /\ genCalls = <<>>
    /\ sends = 0
    /\ waits = 0
    /\ panSeen = FALSE
    /\ fatalSeen = FALSE
    /\ cancelled = FALSE
    /\ extractCalls = <<>>
    /\ delays = <<>>
    /\ prevRetries = 0
    /\ diag = NoDiag

NoAnswer == [status |-> "none", refreshable |-> FALSE]

\* no client runs on its own
NoClientRun ==
    /\ client = "none"
    /\ rpc = "idle"
    /\ retryCount = 0
    /\ answer = NoAnswer
    /\ log = <<>>
    /\ task = "none"
    /\ errors = 0
    /\ raised = "none"

\* the arguments of the call but out_paths
RunArgs ==
    /\ call \in Calls
    /\ impl \in Impls
    /\ provider \in Providers
    /\ model \in Models
    /\ config \in {"given", "absent_env_ok", "absent_env_missing"}
    /\ N \in 1..MaxClips
    /\ refs \in BOOLEAN
    /\ resume \in BOOLEAN
    /\ delay \in {0, DelayBetweenClips}
    /\ call = "runway_gen4" =>
           /\ impl = "video_generator" /\ provider = "runway"
           /\ N = 1 /\ ~resume /\ delay = 0

\* out_paths is absent or names one path for each prompt
RunInputs ==
    /\ RunArgs
    /\ out_paths \in {<<>>} \cup ExplicitPaths(N)
    /\ fs \in [1..N -> FileStates]
    /\ fs0 = fs

\* a run whose configuration has the default retry settings
Init ==
    /\ RunInputs
    /\ retry = DefaultRetry
    /\ transients = MaxTransient
    /\ InitState
    /\ NoClientRun
    /\ fn = "none" /\ arg = NoArg /\ ret = NotYet

clientVars == << cpc, attempt, lastResp, credsRefreshable, sends, panSeen, fatalSeen,
                delays, prevRetries >>

(***************************************************************************)
(* Orchestrator: generate_video_sequence_with_veo3_stitching               *)
(***************************************************************************)
\* get_stitch_config, validate_stitch_model, build_expected_out_paths and
\* _initialize_stitching_state, in the order of the code; probe is the
\* position of an expected path whose existence or size check fails with an
\* OSError (0: no check fails)
Start ==
    /\ pc = "init" /\ call = "stitching"
    /\ IF config = "absent_env_missing"
       THEN /\ exc' = "ValueError" /\ origin' = "config" /\ pc' = "raised"
            /\ UNCHANGED << config, idx, start_idx, outputs, last_frame,
                            extractCalls >>
       ELSE IF ~validate_stitch_model(model)
       THEN /\ exc' = "ValueError" /\ origin' = "validate" /\ pc' = "raised"
            /\ config' = "resolved"
            /\ UNCHANGED << idx, start_idx, outputs, last_frame, extractCalls >>
       ELSE \E extractOk \in BOOLEAN,
               probe \in 0..Len(build_expected_out_paths(N, out_paths, provider)) :
              LET expected_paths == build_expected_out_paths(N, out_paths, provider)
                  st == initialize_stitching_state(resume, expected_paths, fs, extractOk)
              IN  /\ config' = "resolved"
                  /\ IF resume /\ probe_raises(expected_paths, fs, probe)
                     THEN /\ exc' = "OSError" /\ origin' = "scan"
                          /\ pc' = "raised"
                          /\ UNCHANGED << idx, start_idx, outputs, last_frame,
                                          extractCalls >>
                     ELSE /\ outputs' = st.outputs
                          /\ start_idx' = st.start_idx
                          /\ idx' = st.start_idx
                          /\ last_frame' = st.last_frame_path
                          /\ extractCalls' = st.extract_calls
                          /\ pc' = "loop"
                          /\ UNCHANGED << exc, origin >>
    /\ UNCHANGED << inputs, pureVars, loopVars, diag, fs, video_path, clientVars, genCalls,
                    waits, cancelled >>

(***************************************************************************)
(* Provider clients: what one answer to the generation request leads to    *)
(***************************************************************************)
\* outcomes of one HTTP POST: a status (200 with a usable or an unusable
\* body, 400 with or without a credits message, ...) or a requests exception
Responses == {"200", "200_bad", "400", "400_credits", "401", "404", "413",
              "429", "500", "503", "Timeout", "SSLError", "ConnectionError"}

RequestExceptions == {"Timeout", "SSLError", "ConnectionError"}

\* answers after which some client sends the request again; the provider
\* stops giving them once the attempt counter reaches transients
MayRetry == {"401", "413", "429", "500", "503",
             "Timeout", "SSLError", "ConnectionError"}

\* float('inf')
Infinity == -1

\* mutant: the client gives up after a fixed number of attempts
max_retries_bounded == MaxTransient

\* Veo3APIClient.max_retries: getattr(config, 'max_retries', float('inf')),
\* and Veo3Config has no such field
max_retries == Infinity

\* attempt < self.max_retries - shift
BelowMaxRetries(a, shift) == max_retries = Infinity \/ a < max_retries - shift

\* mutant: a 400 answer is reported as retryable
google_handle_error_response_retry_400(status, refreshable) ==
    CASE status \in {"429", "429_quota"} -> "retry"
      [] status = "503" -> "retry"
      [] status = "401" -> IF refreshable THEN "retry" ELSE "AuthenticationError"
      [] status = "404" -> "Veo3APIError"
      [] OTHER -> "retry"

\* Veo3APIClient._handle_error_response: "retry" (True), "noretry" (False) or
\* the exception the handler raises
google_handle_error_response(status, refreshable) ==
    CASE status \in {"429", "429_quota"} -> "retry"
      [] status = "503" -> "retry"
      [] status = "401" -> IF refreshable THEN "retry" ELSE "AuthenticationError"
      [] status = "404" -> "Veo3APIError"
      [] status \in {"400", "400_credits"} -> "noretry"
      [] OTHER -> "retry"

\* one iteration of Veo3APIClient._make_request_with_retry after the answer:
\* next position of the client and, for "raise", the exception
google_after_response(resp, att, refreshable) ==
    IF resp \in RequestExceptions
    THEN IF BelowMaxRetries(att, 1) THEN [next |-> "backoff", exc |-> "none"]
         ELSE IF BelowMaxRetries(att + 1, 0) THEN [next |-> "request", exc |-> "none"]
         ELSE [next |-> "raise", exc |-> "Veo3APIError"]
    ELSE IF resp = "200" THEN [next |-> "save", exc |-> "none"]
    ELSE IF resp = "200_bad" THEN [next |-> "raise", exc |-> "VideoProcessingError"]
    ELSE LET h == google_handle_error_response(resp, refreshable)
         IN  IF h = "retry" /\ BelowMaxRetries(att, 1)
             THEN [next |-> "backoff", exc |-> "none"]
             ELSE IF h \in {"retry", "noretry"}
             THEN [next |-> "raise", exc |-> "Veo3APIError"]
             ELSE [next |-> "raise", exc |-> h]

\* one iteration of RunwayVeoClient._make_request_with_retry after the answer
\* (_handle_response and the except clauses)
runway_after_response(resp) ==
    CASE resp = "SSLError" -> [next |-> "raise", exc |-> "RuntimeError"]
      [] resp = "Timeout" -> [next |-> "backoff", exc |-> "none"]
      [] resp = "ConnectionError" -> [next |-> "raise", exc |-> "RuntimeError"]
      [] resp = "400_credits" -> [next |-> "raise", exc |-> "InsufficientCreditsError"]
      [] resp = "400" -> [next |-> "raise", exc |-> "RuntimeError"]
      [] resp = "401" -> [next |-> "raise", exc |-> "RuntimeError"]
      [] resp = "413" -> [next |-> "raise", exc |-> "RuntimeError"]
      [] resp \in {"429", "503"} -> [next |-> "backoff", exc |-> "none"]
      [] resp = "200" -> [next |-> "poll", exc |-> "none"]
      [] resp = "200_bad" -> [next |-> "raise", exc |-> "RuntimeError"]
      [] OTHER -> [next |-> "raise", exc |-> "RuntimeError"]

\* mutant: a 400 answer about credits is taken for a capacity failure
gen4_after_response_credits_retried(resp) ==
    CASE resp = "SSLError" -> [next |-> "raise", exc |-> "RuntimeError"]
      [] resp = "Timeout" -> [next |-> "backoff", exc |-> "none"]
      [] resp = "ConnectionError" -> [next |-> "raise", exc |-> "RuntimeError"]
      [] resp = "400_credits" -> [next |-> "backoff", exc |-> "none"]
      [] resp = "400" -> [next |-> "raise", exc |-> "RuntimeError"]
      [] resp = "401" -> [next |-> "raise", exc |-> "RuntimeError"]
      [] resp = "413" -> [next |-> "raise", exc |-> "RuntimeError"]
      [] resp \in {"429", "503"} -> [next |-> "backoff", exc |-> "none"]
      [] resp = "200" -> [next |-> "poll", exc |-> "none"]
      [] resp = "200_bad" -> [next |-> "raise", exc |-> "RuntimeError"]
      [] OTHER -> [next |-> "raise", exc |-> "RuntimeError"]

\* one iteration of RunwayGen4Client._make_request_with_retry after the answer
\* (_handle_response, _handle_400_error and the except clauses)
gen4_after_response(resp) ==
    CASE resp = "SSLError" -> [next |-> "raise", exc |-> "RuntimeError"]
      [] resp = "Timeout" -> [next |-> "backoff", exc |-> "none"]
      [] resp = "ConnectionError" -> [next |-> "raise", exc |-> "RuntimeError"]
      [] resp = "400_credits" -> [next |-> "raise", exc |-> "InsufficientCreditsError"]
      [] resp = "400" -> [next |-> "raise", exc |-> "RuntimeError"]
      [] resp = "401" -> [next |-> "raise", exc |-> "RuntimeError"]
      [] resp = "413" -> [next |-> "raise", exc |-> "RuntimeError"]
      [] resp \in {"429", "503"} -> [next |-> "backoff", exc |-> "none"]
      [] resp = "200" -> [next |-> "poll", exc |-> "none"]
      [] resp = "200_bad" -> [next |-> "raise", exc |-> "RuntimeError"]
      [] OTHER -> [next |-> "raise", exc |-> "RuntimeError"]

after_response(prov, resp, att, refreshable) ==
    IF prov = "veo3" THEN google_after_response(resp, att, refreshable)
    ELSE runway_after_response(resp)

\* mutant: the interrupt is reported as exhausted credits
backoff_cancel_exception_as_credits(prov) ==
    IF prov = "veo3" THEN "KeyboardInterrupt" ELSE "InsufficientCreditsError"

\* the exception a Ctrl-C during the backoff sleep turns into
backoff_cancel_exception(prov) ==
    IF prov = "veo3" THEN "KeyboardInterrupt" ELSE "RuntimeError"

\* mutant: a request without a source image is sent all the same
create_image_to_video_task_raises_never(first_frame, has_refs) == FALSE

\* RunwayVeoClient.create_image_to_video_task raises ValueError before
\* _make_request_with_retry: neither first_frame nor a reference image gives
\* the promptImage
create_image_to_video_task_raises(first_frame, has_refs) ==
    first_frame = None /\ ~has_refs

\* does generate_veo_clip reach the provider's generator, and if not, why
generator_entry(im, prov, source_frame, has_refs) ==
    IF prov = "veo3" THEN "ok"
    ELSE IF im = "video_stitching" THEN "TypeError"
    ELSE IF create_image_to_video_task_raises(source_frame, has_refs)
    THEN "ValueError"
    ELSE "ok"

\* the path the generator returns for out_path
returned_path(prov, out_path) ==
    IF prov = "veo3" THEN StrPath(out_path) ELSE out_path

CurrentCall == genCalls[Len(genCalls)]

\* the generator raises e: to the loop of the orchestrator, or to the caller
\* of generate_video_with_runway
GeneratorRaises(e) ==
    /\ exc' = e
    /\ origin' = "generator"
    /\ cpc' = "idle"
    /\ pc' = IF call = "stitching" THEN "except" ELSE "raised"

\* mutant: the next generation starts without the frame extraction
after_clip_generated_no_extract(c) ==
    IF c = "stitching" THEN "loop" ELSE "returned"

\* where the run goes on once the generator returned the clip: the frame
\* extraction of the orchestrator, or the return of generate_video_with_runway
after_clip_generated(c) ==
    IF c = "stitching" THEN "extract" ELSE "returned"

\* the output path of generate_video_with_runway: out_path, or
\* config.default_output when it is None
gen4_out_path(op) ==
    IF op # <<>> THEN op[1] ELSE Path("runway_output", 1, TRUE)

(***************************************************************************)
(* generate_video_with_runway: one Gen-4 clip                              *)
(***************************************************************************)
\* the configuration is resolved, the client is built and
\* create_image_to_video_task posts the request
StartGen4 ==
    /\ pc = "init" /\ call = "runway_gen4"
    /\ IF config = "absent_env_missing"
       THEN /\ exc' = "ValueError" /\ origin' = "config" /\ pc' = "raised"
            /\ UNCHANGED << config, genCalls, cpc >>
       ELSE /\ config' = "resolved"
            /\ genCalls' = << [ idx |-> 0,
                                source_frame |-> None,
                                out_path |-> gen4_out_path(out_paths),
                                existed |-> fs[1] = "data" ] >>
            /\ pc' = "generating"
            /\ cpc' = "request"
            /\ UNCHANGED << exc, origin >>
    /\ UNCHANGED << inputs, pureVars, loopVars, diag, extractCalls, fs, idx, start_idx,
                    outputs, last_frame, video_path, attempt, lastResp,
                    credsRefreshable, sends, waits, panSeen, fatalSeen,
                    cancelled, delays, prevRetries >>

(***************************************************************************)
(* The loop of the orchestrator                                            *)
(***************************************************************************)
\* for idx in range(start_idx, len(prompts)): prepare the clip's parameters
\* and call the generator; after the last index, return outputs.  A list
\* out_paths that is too short ends the run with IndexError.
LoopStep ==
    /\ pc = "loop"
    /\ IF idx < N /\ prepare_clip_params_raises(idx, out_paths)
       THEN /\ pc' = "except"
            /\ exc' = "IndexError"
            /\ origin' = "params"
            /\ UNCHANGED << genCalls, cpc, attempt, sends, panSeen, fatalSeen,
                            delays, prevRetries >>
       ELSE IF idx < N
       THEN LET params == prepare_clip_params(idx, refs, last_frame, out_paths, provider)
                entry == generator_entry(impl, provider, params.source_frame,
                                         params.reference_images)
            IN  /\ genCalls' = Append(genCalls,
                       [ idx |-> idx,
                         source_frame |-> params.source_frame,
                         out_path |-> params.out_path,
                         existed |-> fs[params.out_path.n] = "data" ])
                /\ sends' = 0
                /\ panSeen' = FALSE
                /\ fatalSeen' = FALSE
                /\ IF entry = "ok"
                   THEN /\ pc' = "generating"
                        /\ cpc' = "request"
                        /\ attempt' = initial_retry_count(attempt)
                        /\ delays' = <<>>
                        /\ prevRetries' = attempt
                        /\ UNCHANGED << exc, origin >>
                   ELSE /\ pc' = "except"
                        /\ exc' = entry
                        /\ origin' = "generator"
                        /\ UNCHANGED << cpc, attempt, delays, prevRetries >>
       ELSE /\ pc' = "returned"
            /\ UNCHANGED << genCalls, cpc, attempt, exc, origin, sends,
                            panSeen, fatalSeen, delays, prevRetries >>
    /\ UNCHANGED << inputs, pureVars, loopVars, diag, extractCalls, config, fs, idx,
                    start_idx, outputs, last_frame, video_path, lastResp,
                    credsRefreshable, waits, cancelled >>

\* requests.post of the generation request, and the answer to it
SendRequest ==
    /\ pc = "generating" /\ cpc = "request"
    /\ \E r \in Responses, refreshable \in BOOLEAN :
          /\ r \in MayRetry => attempt < transients
          /\ refreshable => (provider = "veo3" /\ r = "401")
          /\ lastResp' = r
          /\ credsRefreshable' = refreshable
          /\ panSeen' = (panSeen \/ r \in {"400", "401", "404"})
          /\ fatalSeen' = (fatalSeen \/ r \in {"400", "404"}
                              \/ (r = "401" /\ ~refreshable))
    /\ sends' = sends + 1
    /\ cpc' = "response"
    /\ UNCHANGED << inputs, pureVars, loopVars, diag, extractCalls, config, fs, pc, idx,
                    start_idx, outputs, last_frame, video_path, exc, origin,
                    attempt, genCalls, waits, cancelled, delays, prevRetries >>

\* Ctrl-C while the request is outstanding
CancelRequest ==
    /\ pc = "generating" /\ cpc = "request"
    /\ sends' = sends + 1
    /\ GeneratorRaises("KeyboardInterrupt")
    /\ cancelled' = TRUE
    /\ prevRetries' = 0
    /\ UNCHANGED << inputs, pureVars, loopVars, diag, extractCalls, config, fs, idx,
                    start_idx, outputs, last_frame, video_path, attempt,
                    lastResp, credsRefreshable, genCalls, waits, panSeen,
                    fatalSeen, delays >>

\* the client's reaction to the answer
HandleResponse ==
    /\ pc = "generating" /\ cpc = "response"
    /\ LET a == IF call = "runway_gen4" THEN gen4_after_response(lastResp)
                ELSE after_response(provider, lastResp, attempt, credsRefreshable)
       IN  /\ IF a.next = "raise"
              THEN /\ GeneratorRaises(a.exc)
                   /\ UNCHANGED attempt
              ELSE /\ cpc' = a.next
                   /\ attempt' = IF a.next = "request" THEN attempt + 1 ELSE attempt
                   /\ UNCHANGED << pc, exc, origin >>
           /\ IF a.next = "backoff"
              THEN /\ delays' = Append(delays,
                          [ attempt |-> attempt,
                            delay |-> backoff_delay(provider, attempt, retry) ])
                   /\ UNCHANGED prevRetries
              ELSE /\ prevRetries' = 0
                   /\ UNCHANGED delays
    /\ lastResp' = "none"
    /\ credsRefreshable' = FALSE
    /\ UNCHANGED << inputs, pureVars, loopVars, diag, extractCalls, config, fs, idx,
                    start_idx, outputs, last_frame, video_path, genCalls,
                    sends, waits, panSeen, fatalSeen, cancelled >>

\* the backoff sleep ends: count the attempt and send again
BackoffDone ==
    /\ pc = "generating" /\ cpc = "backoff"
    /\ attempt' = attempt + 1
    /\ cpc' = "request"
    /\ prevRetries' = 0
    /\ UNCHANGED << inputs, pureVars, loopVars, diag, extractCalls, config, fs, pc, idx,
                    start_idx, outputs, last_frame, video_path, exc, origin,
                    lastResp, credsRefreshable, genCalls, sends, waits,
                    panSeen, fatalSeen, cancelled, delays >>

\* Ctrl-C during the backoff sleep
BackoffCancel ==
    /\ pc = "generating" /\ cpc = "backoff"
    /\ GeneratorRaises(backoff_cancel_exception(provider))
    /\ cancelled' = TRUE
    /\ UNCHANGED << inputs, pureVars, loopVars, diag, extractCalls, config, fs, idx,
                    start_idx, outputs, last_frame, video_path, attempt,
                    lastResp, credsRefreshable, genCalls, sends, waits,
                    panSeen, fatalSeen, delays, prevRetries >>

\* poll_task of the Runway clients until the task settles, then the output
\* URL; the Gen-4 client gives up on a 4xx answer to the poll
PollTask ==
    /\ pc = "generating" /\ cpc = "poll"
    /\ \E status \in {"SUCCEEDED", "SUCCEEDED_no_output", "FAILED",
                       "HTTPError_4xx", "KeyboardInterrupt"} :
          /\ status = "HTTPError_4xx" => call = "runway_gen4"
          /\ cancelled' = (status = "KeyboardInterrupt")
          /\ IF status = "SUCCEEDED"
             THEN cpc' = "save" /\ UNCHANGED << pc, exc, origin >>
             ELSE IF status = "KeyboardInterrupt"
             THEN GeneratorRaises("KeyboardInterrupt")
             ELSE IF status = "HTTPError_4xx"
             THEN GeneratorRaises("HTTPError")
             ELSE GeneratorRaises("RuntimeError")
    /\ UNCHANGED << inputs, pureVars, loopVars, diag, extractCalls, config, fs, idx,
                    start_idx, outputs, last_frame, video_path, attempt,
                    lastResp, credsRefreshable, genCalls, sends, waits,
                    panSeen, fatalSeen, delays, prevRetries >>

\* the video is written to out_path (download_video for Runway, open/write
\* for Google) and the generator returns the path; a failing download may
\* leave the file as it was, empty or partly written
SaveVideo ==
    /\ pc = "generating" /\ cpc = "save"
    /\ LET out_path == CurrentCall.out_path
       IN  \/ /\ fs' = [fs EXCEPT ![out_path.n] = "data"]
              /\ video_path' = returned_path(provider, out_path)
              /\ cpc' = "idle"
              /\ pc' = after_clip_generated(call)
              /\ UNCHANGED << exc, origin >>
           \/ /\ provider = "veo3"
              /\ GeneratorRaises("OSError")
              /\ UNCHANGED << fs, video_path >>
           \/ /\ provider # "veo3"
              /\ \E f \in {fs[out_path.n], "empty", "data"} :
                    fs' = [fs EXCEPT ![out_path.n] = f]
              /\ GeneratorRaises("RuntimeError")
              /\ UNCHANGED video_path
    /\ UNCHANGED << inputs, pureVars, loopVars, diag, extractCalls, config, idx,
                    start_idx, outputs, last_frame, attempt, lastResp,
                    credsRefreshable, genCalls, sends, waits, panSeen,
                    fatalSeen, cancelled, delays, prevRetries >>

\* is the step that raised inside the try block of the loop
in_try(im, org) ==
    IF im = "video_generator" THEN org = "generator"
    ELSE org \in {"generator", "extract", "sleep"}

\* mutant: the except clause names the wrong exception class
orchestrator_catches_wrong_class(im, e, org) ==
    in_try(im, org) /\ e = "RuntimeError"

\* mutant: the except clause catches every exception
orchestrator_catches_all(im, e, org) ==
    in_try(im, org)

\* except InsufficientCreditsError: the only exception the loop handles
orchestrator_catches(im, e, org) ==
    in_try(im, org) /\ e = "InsufficientCreditsError"

\* the clip is appended to outputs and its last frame is extracted
\* (video_generator.py appends first, video_stitching.py extracts first);
\* then sleep_between_clips decides whether to wait
ExtractFrame ==
    /\ pc = "extract"
    /\ \E extractOk \in BOOLEAN :
          /\ extractCalls' = Append(extractCalls,
                                    [path |-> video_path, ok |-> extractOk])
          /\ IF extractOk
             THEN /\ outputs' = Append(outputs, video_path)
                  /\ last_frame' = FramePng(video_path)
                  /\ IF sleeps_between_clips(idx, N, delay)
                     THEN /\ pc' = "sleep"
                          /\ waits' = waits + 1
                          /\ UNCHANGED idx
                     ELSE /\ pc' = "loop"
                          /\ idx' = idx + 1
                          /\ UNCHANGED waits
                  /\ UNCHANGED << exc, origin >>
             ELSE /\ outputs' = IF impl = "video_generator"
                                THEN Append(outputs, video_path) ELSE outputs
                  /\ exc' = "RuntimeError"
                  /\ origin' = "extract"
                  /\ pc' = "except"
                  /\ UNCHANGED << last_frame, idx, waits >>
    /\ UNCHANGED << inputs, pureVars, loopVars, diag, config, fs, start_idx, video_path, clientVars,
                    genCalls, cancelled >>

\* time.sleep(delay_seconds) between two clips ends
SleepDone ==
    /\ pc = "sleep"
    /\ pc' = "loop"
    /\ idx' = idx + 1
    /\ UNCHANGED << inputs, pureVars, loopVars, diag, extractCalls, config, fs, start_idx,
                    outputs, last_frame, video_path, exc, origin, clientVars,
                    genCalls, waits, cancelled >>

\* Ctrl-C during the inter-clip sleep
SleepCancel ==
    /\ pc = "sleep"
    /\ exc' = "KeyboardInterrupt"
    /\ origin' = "sleep"
    /\ pc' = "except"
    /\ cancelled' = TRUE
    /\ UNCHANGED << inputs, pureVars, loopVars, diag, extractCalls, config, fs, idx,
                    start_idx, outputs, last_frame, video_path, clientVars,
                    genCalls, waits >>

\* an exception reached the loop: InsufficientCreditsError raised inside the
\* try block is logged and the outputs so far are returned; anything else
\* propagates to the caller.  exc keeps the exception that ended the run.
Except ==
    /\ pc = "except"
    /\ pc' = IF orchestrator_catches(impl, exc, origin) THEN "returned" ELSE "raised"
    /\ diag' = IF orchestrator_catches(impl, exc, origin)
               THEN credits_diagnostic(idx, N) ELSE diag
    /\ UNCHANGED << inputs, pureVars, loopVars, extractCalls, config, fs, idx, start_idx,
                    outputs, last_frame, video_path, exc, origin, clientVars,
                    genCalls, waits, cancelled >>

Next ==
    \/ Start
    \/ StartGen4
    \/ LoopStep
    \/ SendRequest
    \/ CancelRequest
    \/ HandleResponse
    \/ BackoffDone
    \/ BackoffCancel
    \/ PollTask
    \/ SaveVideo
    \/ ExtractFrame
    \/ SleepDone
    \/ SleepCancel
    \/ Except

Spec == Init /\ [][Next]_vars

\* fresh runs with a valid model, a given configuration with any retry
\* settings, and default paths
RetryInit ==
    /\ RunInputs
    /\ retry \in RetrySettings
    /\ transients = MaxBackoffs
    /\ InitState
    /\ NoClientRun
    /\ fn = "none" /\ arg = NoArg /\ ret = NotYet
    /\ validate_stitch_model(model)
    /\ config = "given"
    /\ ~resume
    /\ out_paths = <<>>
    /\ \A n \in 1..N : fs[n] = "missing"

\* runs with a valid model and a given configuration whose out_paths may
\* name fewer or more paths than there are prompts
PathsInit ==
    /\ RunArgs
    /\ validate_stitch_model(model)
    /\ config = "given"
    /\ refs
    /\ out_paths \in {<<>>} \cup UNION { ExplicitPaths(n) : n \in 1..MaxClips }
    /\ call = "runway_gen4" => Len(out_paths) <= 1
    /\ fs \in [1..Max(N, Len(out_paths)) -> {"missing", "data"}]
    /\ fs0 = fs
    /\ retry = DefaultRetry
    /\ transients = MaxTransient
    /\ InitState
    /\ NoClientRun
    /\ fn = "none" /\ arg = NoArg /\ ret = NotYet

PathsSpec == PathsInit /\ [][Next]_vars

\* the single thread of the run keeps running: whatever step is enabled is
\* eventually taken (a sleep ends, a request is answered)
FairSpec == RetryInit /\ [][Next]_vars /\ WF_vars(Next)

TypeOK ==
    /\ pc \in {"init", "loop", "generating", "extract", "sleep", "except",
               "returned", "raised"}
    /\ cpc \in {"idle", "request", "response", "backoff", "poll", "save"}
    /\ idx \in 0..N
    /\ attempt \in 0..transients
    /\ Len(outputs) <= N

(***************************************************************************)
(* Model/provider validation: video_utils.py and config.py                 *)
(***************************************************************************)
\* x in seq
Contains(seq, x) == \E k \in 1..Len(seq) : seq[k] = x

\* all_providers of find_matching_providers, the values of VideoProvider
VideoProviders == << "openai", "azure", "google", "runway" >>

DEFAULT_VEO_MODEL == "veo-3.1-fast-generate-preview"

\* get_available_models(provider, query_api=False): models_by_provider
get_available_models(prov) ==
    CASE prov = "openai" -> << "sora-2", "sora-2-pro" >>
      [] prov = "azure" -> << "sora-2", "sora-2-pro" >>
      [] prov = "google" -> << "veo-3.1-generate-preview", DEFAULT_VEO_MODEL,
                               "veo-3.0-generate-001",
                               "veo-3.0-fast-generate-001" >>
      [] prov = "runway" -> << "gen4_turbo", "gen4", "veo3.1_fast", "veo3.1",
                               "veo3" >>

\* mutant: the search stops at the first provider that has the model
find_matching_providers_first(m, current_provider) ==
    LET all == SelectSeq(VideoProviders,
                   LAMBDA p : p # current_provider
                              /\ Contains(get_available_models(p), m))
    IN  IF all = <<>> THEN <<>> ELSE << all[1] >>

\* find_matching_providers(model, current_provider)
find_matching_providers(m, current_provider) ==
    SelectSeq(VideoProviders,
              LAMBDA p : p # current_provider
                         /\ Contains(get_available_models(p), m))

\* build_model_error_message: what the message says
build_model_error_message(m, prov, available_models, matching_providers) ==
    IF matching_providers # <<>>
    THEN [ text |-> "is not available for provider",
           model |-> m, provider |-> prov,
           providers |-> matching_providers,
           use |-> << matching_providers[1] >>,
           available_models |-> <<>> ]
    ELSE [ text |-> "is not recognized for provider",
           model |-> m, provider |-> prov,
           providers |-> <<>>,
           use |-> <<>>,
           available_models |-> available_models ]

NoMessage == [ text |-> "" ]

\* validate_model_for_provider(model, provider, logger)
validate_model_for_provider(m, prov) ==
    LET available_models == get_available_models(prov)
    IN  IF ~Contains(available_models, m)
        THEN [ done |-> TRUE, raised |-> "ValueError",
               message |-> build_model_error_message(m, prov, available_models,
                               find_matching_providers(m, prov)) ]
        ELSE [ done |-> TRUE, raised |-> "none", message |-> NoMessage ]

(***************************************************************************)
(* The helper functions applied on their own                               *)
(***************************************************************************)
PureFunctions == { "validate_stitch_model", "validate_model_for_provider",
                   "build_expected_out_paths", "calculate_retry_delay",
                   "calculate_backoff_delay" }

\* model names given to validate_stitch_model
StitchModelInputs ==
    Models \cup
    { [present |-> TRUE, name |-> nm] :
        nm \in { << "v" >>, << "v", "e" >>, << "v", "e", "o" >>,
                 << "V", "e", "o", "3" >>, << "x", "v", "e", "o" >>,
                 << "v", "e", "0", "3" >>,
                 << "v", "e", "o", "-", "3", ".", "1" >>,
                 << "s", "o", "r", "a" >> } }

\* model names given to validate_model_for_provider
TableModelInputs ==
    { "sora-2", "sora-2-pro", "veo-3.1-generate-preview", DEFAULT_VEO_MODEL,
      "veo-3.0-generate-001", "veo-3.0-fast-generate-001", "gen4_turbo",
      "gen4", "veo3.1_fast", "veo3.1", "veo3", "nonexistent-model-xyz", "" }

\* path lists given to build_expected_out_paths: none, or 1..MaxClips paths
PathListInputs ==
    {<<>>} \cup UNION { ExplicitPaths(n) : n \in 1..MaxClips }

\* random.random(), in hundredths
RandomDraws == {0, 25, 50, 75, 99}

\* random.uniform(0.8, 1.2), in hundredths
UniformDraws == {80, 90, 100, 110, 120}

PureArgs(f) ==
    CASE f = "validate_stitch_model" ->
             { [model |-> m] : m \in StitchModelInputs }
      [] f = "validate_model_for_provider" ->
             { [model |-> m, provider |-> p] :
                 m \in TableModelInputs,
                 p \in { VideoProviders[k] : k \in 1..Len(VideoProviders) } }
      [] f = "build_expected_out_paths" ->
             { [count |-> c, out_paths |-> op, provider |-> p] :
                 c \in 0..MaxClips, op \in PathListInputs,
                 p \in Providers \cup {"google"} }
      [] f = "calculate_retry_delay" ->
             { [retry_count |-> rc, base_delay |-> b, max_delay |-> m,
                jitter_percent |-> j] :
                 rc \in 0..1, b \in {1, 30}, m \in {10, 300},
                 j \in {0, RetryJitterPercent, 99} }
      [] f = "calculate_backoff_delay" ->
             { [attempt |-> 0, base_delay |-> b, max_delay |-> m] :
                 b \in {1, 30}, m \in {10, 300} }

\* no orchestrator runs; one helper is about to be applied to its arguments
PureInit ==
    /\ call = "stitching"
    /\ impl = "video_stitching"
    /\ provider = "veo3"
    /\ model = NoModel
    /\ config = "given"
    /\ N = 1
    /\ out_paths = <<>>
    /\ refs = FALSE
    /\ resume = FALSE
    /\ delay = 0
    /\ fs = [n \in 1..1 |-> "missing"]
    /\ fs0 = fs
    /\ retry = DefaultRetry
    /\ transients = MaxTransient
    /\ InitState
    /\ NoClientRun
    /\ fn \in PureFunctions
    /\ arg \in PureArgs(fn)
    /\ ret = NotYet

runVars == << call, impl, provider, model, config, N, out_paths, refs, resume,
              delay, fs, fs0, pc, idx, start_idx, outputs, last_frame,
              video_path, exc, origin, cpc, attempt, lastResp,
              credsRefreshable, genCalls, sends, waits, panSeen, fatalSeen,
              cancelled, extractCalls, retry, transients, delays,
              prevRetries, diag >>

ApplyValidateStitchModel ==
    /\ fn = "validate_stitch_model" /\ ~ret.done
    /\ ret' = [ done |-> TRUE,
                raised |-> IF validate_stitch_model(arg.model)
                           THEN "none" ELSE "ValueError" ]
    /\ UNCHANGED << runVars, loopVars, fn, arg >>

ApplyValidateModelForProvider ==
    /\ fn = "validate_model_for_provider" /\ ~ret.done
    /\ ret' = validate_model_for_provider(arg.model, arg.provider)
    /\ UNCHANGED << runVars, loopVars, fn, arg >>

ApplyBuildExpectedOutPaths ==
    /\ fn = "build_expected_out_paths" /\ ~ret.done
    /\ ret' = [ done |-> TRUE,
                paths |-> build_expected_out_paths(arg.count, arg.out_paths,
                                                   arg.provider) ]
    /\ UNCHANGED << runVars, loopVars, fn, arg >>

\* handle_capacity_retry calls calculate_retry_delay with the retry count of
\* its caller, which grows by one from call to call
ApplyCalculateRetryDelay ==
    /\ fn = "calculate_retry_delay"
    /\ LET retry_count == IF ret.done THEN ret.retry_count + 1
                          ELSE arg.retry_count
       IN  /\ retry_count <= MaxAttempt
           /\ \E random \in RandomDraws :
                 ret' = calculate_retry_delay(retry_count, arg.base_delay,
                            arg.max_delay, arg.jitter_percent, random)
    /\ UNCHANGED << runVars, loopVars, fn, arg >>

\* _make_request_with_retry calls _calculate_backoff_delay with its attempt
\* counter, 0 at the first failure and one more at each failure after it
ApplyCalculateBackoffDelay ==
    /\ fn = "calculate_backoff_delay"
    /\ LET att == IF ret.done THEN ret.attempt + 1 ELSE arg.attempt
       IN  /\ att < MaxAttempt
           /\ \E jitter \in UniformDraws :
                 LET r == calculate_backoff_delay(att, arg.base_delay,
                                                  arg.max_delay, jitter)
                 IN  ret' = [ done |-> TRUE, attempt |-> att,
                              base_delay |-> r.base_delay, delay |-> r.delay ]
    /\ UNCHANGED << runVars, loopVars, fn, arg >>

PureNext ==
    \/ ApplyValidateStitchModel
    \/ ApplyValidateModelForProvider
    \/ ApplyBuildExpectedOutPaths
    \/ ApplyCalculateRetryDelay
    \/ ApplyCalculateBackoffDelay

PureSpec == PureInit /\ [][PureNext]_vars

(***************************************************************************)
(* The provider clients on their own: the request loops                    *)
(***************************************************************************)
\* the clients with a request loop that retries
RequestClients == { "SoraAPIClient", "AzureSoraAPIClient", "RunwayVeoClient",
                    "RunwayGen4Client", "Veo3APIClient" }

\* those whose loop waits in handle_capacity_retry of retry_utils.py
SharedBackoffClients == RequestClients \ { "Veo3APIClient" }

\* what the service may answer a client's generation request with: an HTTP
\* status, for 429 of the Google client with or without 'quota' in the
\* error message, for 503 of the Sora clients with or without 'capacity' in
\* the text of the error, or a timeout of the HTTP request
ClientAnswers(c) ==
    IF c \in {"SoraAPIClient", "AzureSoraAPIClient"}
    THEN {"200", "400", "401", "404", "429", "503", "503_capacity"}
    ELSE IF c = "Veo3APIClient"
    THEN {"200", "400", "401", "404", "429", "429_quota", "503", "Timeout"}
    ELSE {"200", "400", "400_credits", "401", "413", "429", "503", "Timeout"}

\* SoraAPIClient._should_retry_error / AzureSoraAPIClient._is_capacity_error:
\* "503" in error_str and "capacity" in error_str.lower()
should_retry_error(status) == status = "503_capacity"

\* one iteration of the Sora clients' loop after the answer: the response is
\* returned, the capacity error is retried, any other error ends in the
\* RuntimeError of _handle_non_retryable_error / _handle_fatal_error
sora_after_answer(status) ==
    IF status = "200" THEN [next |-> "return", exc |-> "none"]
    ELSE IF should_retry_error(status) THEN [next |-> "backoff", exc |-> "none"]
    ELSE [next |-> "raise", exc |-> "RuntimeError"]

\* one iteration of a client's request loop after the answer: "return",
\* "backoff", or "raise" with the exception
client_after_answer(c, a, att) ==
    LET r == CASE c \in {"SoraAPIClient", "AzureSoraAPIClient"} ->
                     sora_after_answer(a.status)
               [] c = "RunwayVeoClient" -> runway_after_response(a.status)
               [] c = "RunwayGen4Client" -> gen4_after_response(a.status)
               [] OTHER -> google_after_response(a.status, att, a.refreshable)
    IN  IF r.next \in {"poll", "save"} THEN [next |-> "return", exc |-> "none"]
        ELSE r

\* the Sora clients add one to retry_count before they call
\* _handle_capacity_retry; the Runway clients and the Google client add one
\* after the wait
counts_before_backoff(c) == c \in {"SoraAPIClient", "AzureSoraAPIClient"}

\* the attempt number a client passes to its backoff function
passed_attempt(c, rc) == IF counts_before_backoff(c) THEN rc + 1 ELSE rc

\* the provider argument of the client's backoff
ClientProvider(c) == IF c = "Veo3APIClient" THEN "veo3" ELSE "runway"

\* no orchestrator runs
IdleRun ==
    /\ call = "stitching"
    /\ impl = "video_stitching"
    /\ provider = "veo3"
    /\ model = NoModel
    /\ config = "given"
    /\ N = 1
    /\ out_paths = <<>>
    /\ refs = FALSE
    /\ resume = FALSE
    /\ delay = 0
    /\ fs = [n \in 1..1 |-> "missing"]
    /\ fs0 = fs
    /\ retry = DefaultRetry
    /\ InitState
    /\ fn = "none" /\ arg = NoArg /\ ret = NotYet

\* a client is about to send its generation request
RequestInit ==
    /\ IdleRun
    /\ transients = MaxBackoffs
    /\ client \in RequestClients
    /\ rpc = "send"
    /\ retryCount = 0
    /\ answer = NoAnswer
    /\ log = <<>>
    /\ task = "none"
    /\ errors = 0
    /\ raised = "none"

\* the request is sent and answered; the service gives an answer that the
\* client retries only while fewer than transients retries were made
RequestSend ==
    /\ client \in RequestClients /\ rpc = "send"
    /\ \E s \in ClientAnswers(client), refreshable \in BOOLEAN :
          LET a == [status |-> s, refreshable |-> refreshable]
          IN  /\ refreshable => (client = "Veo3APIClient" /\ s = "401")
              /\ client_after_answer(client, a, retryCount).next = "backoff"
                     => Len(log) < transients
              /\ answer' = a
    /\ rpc' = "answer"
    /\ UNCHANGED << runVars, pureVars, client, retryCount, log, task, errors,
                    raised >>

\* the client's reaction to the answer; a backoff is logged with the attempt
\* number passed to the backoff function, the delay before jitter, the
\* answer it follows and whether the credentials were refreshed
RequestHandle ==
    /\ client \in RequestClients /\ rpc = "answer"
    /\ LET a == client_after_answer(client, answer, retryCount)
           passed == passed_attempt(client, retryCount)
       IN  CASE a.next = "backoff" ->
                  /\ log' = Append(log,
                         [ passed |-> passed,
                           delay |-> backoff_delay(ClientProvider(client),
                                                   passed, retry),
                           status |-> answer.status,
                           refreshed |-> answer.refreshable ])
                  /\ retryCount' = passed
                  /\ rpc' = "backoff"
                  /\ UNCHANGED raised
             [] a.next = "raise" ->
                  /\ rpc' = "raised"
                  /\ raised' = a.exc
                  /\ UNCHANGED << log, retryCount >>
             [] OTHER ->
                  /\ rpc' = "returned"
                  /\ UNCHANGED << log, retryCount, raised >>
    /\ UNCHANGED << runVars, pureVars, client, answer, task, errors >>

\* the backoff sleep ends and the request is sent again
RequestBackoffDone ==
    /\ client \in RequestClients /\ rpc = "backoff"
    /\ retryCount' = IF counts_before_backoff(client) THEN retryCount
                      ELSE retryCount + 1
    /\ rpc' = "send"
    /\ UNCHANGED << runVars, pureVars, client, answer, log, task, errors,
                    raised >>

\* Ctrl-C during the backoff sleep
RequestBackoffCancel ==
    /\ client \in RequestClients /\ rpc = "backoff"
    /\ raised' = backoff_cancel_exception(ClientProvider(client))
    /\ rpc' = "raised"
    /\ UNCHANGED << runVars, pureVars, client, retryCount, answer, log, task,
                    errors >>

RequestNext ==
    \/ RequestSend
    \/ RequestHandle
    \/ RequestBackoffDone
    \/ RequestBackoffCancel

RequestSpec == RequestInit /\ [][RequestNext]_vars

(***************************************************************************)
(* The Runway clients on their own: poll_task                              *)
(***************************************************************************)
PollClients == { "RunwayVeoClient", "RunwayGen4Client", "RunwayAlephClient" }

\* the task at the service: still running, finished, failed, or no longer
\* served, so that every poll is answered with an HTTP 4xx status
TaskStates == { "RUNNING", "SUCCEEDED", "FAILED", "GONE" }

\* what a poll that reaches the service is answered with
TaskAnswer(t) ==
    CASE t = "RUNNING" -> "IN_PROGRESS"
      [] t = "SUCCEEDED" -> "SUCCEEDED"
      [] t = "FAILED" -> "FAILED"
      [] OTHER -> "HTTP_4xx"

\* failures of the HTTP request of a poll that come and go: a timeout, a
\* connection error, an SSL error other than a certificate failure, and a
\* 5xx status
TransientPollErrors == { "Timeout", "ConnectionError", "SSLError", "HTTP_5xx" }

\* isinstance(e, (requests.exceptions.Timeout,
\* requests.exceptions.ConnectionError)); SSLError is a ConnectionError
TimeoutOrConnectionError == { "Timeout", "ConnectionError", "SSLError" }

\* the RuntimeError of RunwayAlephClient._handle_polling_error
MaxRetriesExceeded == "RuntimeError: Max retries exceeded"

\* one iteration of RunwayVeoClient.poll_task after the poll: every
\* RequestException, the HTTPError of raise_for_status included, is slept on
veo_poll_after(status, rc) ==
    CASE status = "SUCCEEDED" -> [next |-> "return", exc |-> "none", retry_count |-> rc]
      [] status = "FAILED" -> [next |-> "raise", exc |-> "RuntimeError", retry_count |-> rc]
      [] status = "SSLError_cert" ->
             [next |-> "raise", exc |-> "RuntimeError", retry_count |-> rc]
      [] OTHER -> [next |-> "sleep", exc |-> "none", retry_count |-> rc]

\* one iteration of RunwayGen4Client.poll_task after the poll
\* (_handle_task_status and _handle_polling_exceptions): a 4xx status is
\* re-raised
gen4_poll_after(status, rc) ==
    CASE status = "SUCCEEDED" -> [next |-> "return", exc |-> "none", retry_count |-> rc]
      [] status = "FAILED" -> [next |-> "raise", exc |-> "RuntimeError", retry_count |-> rc]
      [] status = "SSLError_cert" ->
             [next |-> "raise", exc |-> "RuntimeError", retry_count |-> rc]
      [] status = "HTTP_4xx" ->
             [next |-> "raise", exc |-> "HTTPError", retry_count |-> rc]
      [] OTHER -> [next |-> "sleep", exc |-> "none", retry_count |-> rc]

\* mutant: the third error is still tolerated
aleph_handle_polling_error_gt(e, rc) ==
    IF e = "SSLError_cert"
    THEN [next |-> "raise", exc |-> "RuntimeError", retry_count |-> rc]
    ELSE IF e \in TimeoutOrConnectionError
    THEN IF rc + 1 > 3
         THEN [next |-> "raise", exc |-> MaxRetriesExceeded, retry_count |-> rc]
         ELSE [next |-> "sleep", exc |-> "none", retry_count |-> rc + 1]
    ELSE [next |-> "raise", exc |-> e, retry_count |-> rc]

\* RunwayAlephClient._handle_polling_error(e, retry_count, ...): the new
\* retry_count, or the exception raised
aleph_handle_polling_error(e, rc) ==
    IF e = "SSLError_cert"
    THEN [next |-> "raise", exc |-> "RuntimeError", retry_count |-> rc]
    ELSE IF e \in TimeoutOrConnectionError
    THEN IF rc + 1 >= 3
         THEN [next |-> "raise", exc |-> MaxRetriesExceeded, retry_count |-> rc]
         ELSE [next |-> "sleep", exc |-> "none", retry_count |-> rc + 1]
    ELSE [next |-> "raise", exc |-> e, retry_count |-> rc]

\* one iteration of RunwayAlephClient.poll_task after the poll; the status
\* of the response is not checked, so a 4xx answer reads as a task without
\* status, still in progress
aleph_poll_after(status, rc) ==
    CASE status = "SUCCEEDED" -> [next |-> "return", exc |-> "none", retry_count |-> rc]
      [] status = "FAILED" -> aleph_handle_polling_error("RuntimeError", rc)
      [] status \in {"IN_PROGRESS", "HTTP_4xx"} ->
             [next |-> "sleep", exc |-> "none", retry_count |-> rc]
      [] OTHER -> aleph_handle_polling_error(status, rc)

poll_after(c, status, rc) ==
    CASE c = "RunwayVeoClient" -> veo_poll_after(status, rc)
      [] c = "RunwayGen4Client" -> gen4_poll_after(status, rc)
      [] OTHER -> aleph_poll_after(status, rc)

\* the outcomes of one poll of client c while the task is in state t; the
\* Aleph client's GET gives no 5xx error, it does not call raise_for_status
PollOutcomes(c, t) ==
    { TaskAnswer(t), "SSLError_cert" } \cup
    IF c = "RunwayAlephClient" THEN TimeoutOrConnectionError
    ELSE TransientPollErrors

\* a client begins to poll a running task
PollInit ==
    /\ IdleRun
    /\ transients = MaxTransient
    /\ client \in PollClients
    /\ rpc = "poll"
    /\ retryCount = 0
    /\ answer = NoAnswer
    /\ log = <<>>
    /\ task = "RUNNING"
    /\ errors = 0
    /\ raised = "none"

\* the task finishes, fails or is dropped at the service
TaskSettles ==
    /\ client \in PollClients /\ rpc \in {"poll", "sleep"}
    /\ task = "RUNNING"
    /\ task' \in TaskStates \ {"RUNNING"}
    /\ UNCHANGED << runVars, pureVars, client, rpc, retryCount, answer, log,
                    errors, raised >>

\* requests.get of the task; at most MaxPollErrors polls fail with a
\* transient error, each logged with the outcome of the poll before it
Poll ==
    /\ client \in PollClients /\ rpc = "poll"
    /\ \E a \in PollOutcomes(client, task) :
          /\ a \in TransientPollErrors => errors < MaxPollErrors
          /\ answer' = [status |-> a, refreshable |-> FALSE]
          /\ errors' = IF a \in TransientPollErrors THEN errors + 1 ELSE errors
          /\ log' = IF a \in TransientPollErrors
                    THEN Append(log, [status |-> a, after |-> answer.status])
                    ELSE log
    /\ rpc' = "polled"
    /\ UNCHANGED << runVars, pureVars, client, retryCount, task, raised >>

\* the rest of the iteration: return the task data, raise, or sleep
PollHandle ==
    /\ client \in PollClients /\ rpc = "polled"
    /\ LET h == poll_after(client, answer.status, retryCount)
       IN  /\ retryCount' = h.retry_count
           /\ raised' = h.exc
           /\ rpc' = CASE h.next = "return" -> "returned"
                       [] h.next = "raise" -> "raised"
                       [] OTHER -> "sleep"
    /\ UNCHANGED << runVars, pureVars, client, answer, log, task, errors >>

\* time.sleep(poll_interval) ends
PollSleepDone ==
    /\ client \in PollClients /\ rpc = "sleep"
    /\ rpc' = "poll"
    /\ UNCHANGED << runVars, pureVars, client, retryCount, answer, log, task,
                    errors, raised >>

\* Ctrl-C during the sleep: KeyboardInterrupt is no Exception and leaves
\* the loop
PollInterrupt ==
    /\ client \in PollClients /\ rpc = "sleep"
    /\ raised' = "KeyboardInterrupt"
    /\ rpc' = "raised"
    /\ UNCHANGED << runVars, pureVars, client, retryCount, answer, log, task,
                    errors >>

PollNext ==
    \/ TaskSettles
    \/ Poll
    \/ PollHandle
    \/ PollSleepDone
    \/ PollInterrupt

\* the thread of the client keeps running: a sleep ends, a poll is answered
PollSpec == PollInit /\ [][PollNext]_vars /\ WF_vars(PollNext)

(***************************************************************************)
(* Properties                                                              *)
(***************************************************************************)
ICE == "InsufficientCreditsError"

\* the expected output paths of the run
ExpectedPaths == build_expected_out_paths(N, out_paths, provider)

\* Start went through: the model was accepted and the resume state computed
Started == pc # "init" /\ origin \notin {"config", "validate"}

\* the state right after the Resume Scanner reported, before any generation
ScanReported == resume /\ Started /\ pc = "loop" /\ genCalls = <<>>

Range(seq) == { seq[k] : k \in 1..Len(seq) }

\* C1: when the generation of clip i ends with InsufficientCreditsError, the
\* list the orchestrator returns has exactly i entries, those of clips
\* 0..i-1, in fresh and in resumed runs
C1_PartialResult ==
    (pc = "returned" /\ exc = ICE) =>
        /\ Len(outputs) = CurrentCall.idx
        /\ \A k \in 1..Len(outputs) : outputs[k].n = k

\* a resumed run that generated clip 1 and ran out of credits on clip 2
C1_Witness ==
    /\ pc = "returned" /\ exc = ICE
    /\ resume /\ start_idx = 1 /\ CurrentCall.idx = 2

\* C2 (as stated): the number of completed outputs equals the next index to
\* attempt, and the returned list is exactly the expected paths of indices
\* 0..len(result)-1 in increasing order
C2_Original ==
    /\ pc \in {"loop", "generating", "returned"} => Len(outputs) = idx
    /\ pc = "sleep" => Len(outputs) = idx + 1
    /\ pc = "returned" =>
           \A k \in 1..Len(outputs) : outputs[k] = ExpectedPaths[k]

\* C2 (amended): the count equals the next index, and the k-th entry names
\* the k-th expected output file: it is the expected path itself when the
\* Resume Scanner accepted it or the Runway generator returned it, and the
\* expected path in pathlib's normal form when the Google generator
\* returned it
C2_NoSkip ==
    /\ pc \in {"loop", "generating", "returned"} => Len(outputs) = idx
    /\ pc = "sleep" => Len(outputs) = idx + 1
    /\ pc = "returned" =>
           \A k \in 1..Len(outputs) :
               /\ outputs[k].n = k
               /\ StrPath(outputs[k]) = StrPath(ExpectedPaths[k])
               /\ (k <= start_idx \/ provider # "veo3")
                      => outputs[k] = ExpectedPaths[k]

\* a resumed run that completed: one accepted clip, two generated ones
C2_Witness ==
    /\ pc = "returned" /\ exc = "none"
    /\ resume /\ start_idx = 1 /\ Len(outputs) = 3

\* C3 (as stated): the generator is never invoked for an index whose output
\* file exists and is non-empty at the moment of the invocation
C3_Original ==
    \A k \in 1..Len(genCalls) : ~genCalls[k].existed

\* C3 (amended): with resume enabled the generator is never invoked for an
\* index i such that the files of all indices 0..i existed and were
\* non-empty when the run started
C3_ResumeNoRegenerate ==
    resume =>
        \A k \in 1..Len(genCalls) :
            \E j \in 1..(genCalls[k].idx + 1) : fs0[j] # "data"

\* a resumed run that accepted two clips and invoked the generator for the third
C3_Witness ==
    /\ resume /\ start_idx = 2 /\ Len(genCalls) = 1
    /\ genCalls[1].idx = 2 /\ fs0[1] = "data" /\ fs0[2] = "data"

\* C4: if the Resume Scanner reports startIndex = k then the paths 0..k-1
\* exist and are non-empty, the completed list is those k paths in order,
\* and k = N or the path at index k is missing or empty
C4_PrefixContiguity ==
    ScanReported =>
        /\ start_idx \in 0..N
        /\ \A j \in 1..start_idx :
               Exists(fs0[ExpectedPaths[j].n]) /\ StSize(fs0[ExpectedPaths[j].n]) > 0
        /\ outputs = SubSeq(ExpectedPaths, 1, start_idx)
        /\ \/ start_idx = N
           \/ ~Exists(fs0[ExpectedPaths[start_idx + 1].n])
           \/ StSize(fs0[ExpectedPaths[start_idx + 1].n]) = 0

\* the scanner accepted two of three clips, the third is an empty file
C4_Witness ==
    ScanReported /\ N = 3 /\ start_idx = 2 /\ fs0[3] = "empty"

\* C5: a missing or zero-byte file at index j gives startIndex <= j and no
\* accepted path at an index >= j, whatever exists after j
C5_GapNeverTrusted ==
    ScanReported =>
        \A j \in 0..(N - 1) :
            (~Exists(fs0[j + 1]) \/ StSize(fs0[j + 1]) = 0) =>
                /\ start_idx <= j
                /\ \A k \in 1..Len(outputs) : outputs[k].n - 1 < j

\* a zero-byte file at index 1 with a complete file after it
C5_Witness ==
    /\ ScanReported /\ N = 3
    /\ fs0[1] = "data" /\ fs0[2] = "empty" /\ fs0[3] = "data"
    /\ start_idx = 1

C7_ExtractFailureDegrades ==
    origin = "extract" =>
        /\ pc # "raised"
        /\ video_path \in Range(outputs)
        /\ last_frame = None

\* C8: a generation failure other than credit exhaustion is raised to the
\* caller: it is not swallowed, nothing is returned, no later clip is tried
C8_FatalPropagates ==
    [][ (origin = "generator" /\ exc # ICE) =>
          /\ pc' = "raised"
          /\ exc' = exc
          /\ genCalls' = genCalls
          /\ sends' = sends ]_vars

\* clip 1 was generated, then the generation of clip 2 failed fatally
C8_Witness ==
    /\ pc = "raised" /\ origin = "generator" /\ exc = "RuntimeError"
    /\ N = 3 /\ Len(outputs) = 1 /\ CurrentCall.idx = 1

\* the request of the current clip was answered with a rate-limit or
\* capacity failure on attempt k
TransientAnswer(k) ==
    /\ pc = "generating" /\ cpc = "response"
    /\ lastResp \in {"429", "503"}
    /\ attempt = k

\* the run was cancelled during a wait of the client
Cancelled ==
    origin = "generator" /\ exc = backoff_cancel_exception(provider)

\* C9: after every transient failure, whatever the attempt number, the
\* request is sent again after the backoff unless the user cancels
C9_RetryWithoutCeiling ==
    \A k \in 0..(MaxTransient - 1) :
        TransientAnswer(k) ~> ((cpc = "request" /\ attempt = k + 1) \/ Cancelled)

\* a clip was generated after MaxTransient retries
C9_Witness ==
    pc = "extract" /\ attempt = MaxTransient /\ sends = MaxTransient + 1

\* C10 (as stated): after a 400, 401 or 404 answer the same generation
\* request is never sent again
C10_Original ==
    [][ panSeen => sends' # sends + 1 ]_vars

\* C10 (amended): after a 400 or 404 answer, or a 401 answer that the Runway
\* client receives or that the Google client cannot cure by refreshing its
\* credentials, the request is never sent again and the client raises
C10_FatalNotRetried ==
    [][ fatalSeen =>
          /\ sends' # sends + 1
          /\ cpc = "response" => (pc' \in {"except", "raised"}
                                     /\ exc' # "none" /\ exc' # ICE) ]_vars

\* the first answer was fatal and the run ended with the exception
C10_Witness ==
    pc = "raised" /\ fatalSeen /\ sends = 1 /\ origin = "generator"

\* C11: in the Runway Veo and the Runway Gen-4 client a 400 answer that
\* reports insufficient credits makes task creation raise
\* InsufficientCreditsError on that answer: no backoff wait follows, the
\* retry counter does not move and the request is never sent again
C11_CreditsRaiseAtOnce ==
    [][ /\ (pc = "generating" /\ cpc = "response" /\ provider = "runway"
               /\ lastResp = "400_credits")
            => /\ exc' = ICE /\ origin' = "generator"
               /\ cpc' = "idle"
               /\ attempt' = attempt
               /\ sends' = sends
        /\ exc = ICE => (sends' = sends /\ cpc' = "idle") ]_vars

\* the Gen-4 client got the credits answer to its first request and raised
C11_Witness ==
    /\ call = "runway_gen4" /\ pc = "raised"
    /\ exc = ICE /\ sends = 1 /\ attempt = 0

\* C12: once the user has interrupted the run, during a backoff wait, the
\* inter-clip wait or an outstanding request or poll, no request is sent,
\* no generator is invoked, no retry is counted and no wait is started any
\* more: the interrupt itself leaves the client without a retry and the run
\* ends by raising to the caller
C12_CancellationEndsRun ==
    [][ /\ (cancelled' /\ ~cancelled)
            => /\ cpc' = "idle" /\ attempt' = attempt
               /\ pc' \in {"except", "raised"}
               /\ exc' \in {"KeyboardInterrupt", "RuntimeError"}
        /\ cancelled
            => /\ cancelled'
               /\ sends' = sends /\ genCalls' = genCalls
               /\ attempt' = attempt /\ waits' = waits
               /\ pc' = "raised" ]_vars

\* the Runway client was interrupted in the backoff wait of the second of
\* three clips and the run ended there
C12_Witness ==
    /\ call = "stitching" /\ cancelled /\ pc = "raised"
    /\ provider = "runway" /\ exc = "RuntimeError"
    /\ N = 3 /\ CurrentCall.idx = 1 /\ sends >= 1 /\ Len(genCalls) = 2

\* a model name the stitching accepts: one that begins with "veo"
StitchCapable(m) ==
    /\ m.present /\ Len(m.name) >= 3
    /\ m.name[1] = "v" /\ m.name[2] = "e" /\ m.name[3] = "o"

\* the orchestrator is about to run with a model that cannot stitch
BadModelCall == pc = "init" /\ call = "stitching" /\ ~StitchCapable(model)

C14_SourceFrameChain ==
    [][ call = "stitching" =>
          /\ \A k \in 1..Len(genCalls') :
                 LET c == genCalls'[k]
                 IN  /\ c.idx = 0 => c.source_frame = None
                     /\ (c.idx > 0 /\ k > 1) =>
                            c.source_frame = FramePng(ExpectedPaths[c.idx])
                     /\ (c.idx > 0 /\ k = 1) =>
                            c.source_frame \in
                                {FramePng(ExpectedPaths[c.idx]), None}
          /\ Len(genCalls') = Len(genCalls) + 1 =>
                 genCalls'[Len(genCalls')].source_frame =
                     IF idx > 0 THEN last_frame ELSE None ]_vars

\* a resumed run: clip 1 got the frame of the accepted clip 0, clip 2 the
\* frame of the clip 1 generated in this run
C14_Witness ==
    /\ call = "stitching" /\ resume /\ start_idx = 1 /\ Len(genCalls) = 2
    /\ genCalls[1].idx = 1 /\ genCalls[1].source_frame = FramePng(ExpectedPaths[1])
    /\ genCalls[2].idx = 2 /\ genCalls[2].source_frame = FramePng(ExpectedPaths[2])

\* the number k of leading expected files that were complete when the run
\* started
CompletePrefix ==
    Cardinality({ j \in 1..N :
                    \A i \in 1..j : fs0[ExpectedPaths[i].n] = "data" })

\* the generator invocations so far are those of the indices k, k+1, ... in
\* this order, each once
CallsFromPrefix ==
    \A j \in 1..Len(genCalls) : genCalls[j].idx = CompletePrefix + j - 1

\* C15 (as stated): with resume enabled and the first k files complete the
\* generator is invoked once for each index k..N-1 in increasing order and
\* for no index below k, and when all succeed the returned list has N
\* entries equal to the expected paths
C15_Original ==
    (call = "stitching" /\ resume) =>
        /\ CallsFromPrefix
        /\ (pc = "returned" /\ exc = "none") =>
               /\ Len(genCalls) = N - CompletePrefix
               /\ outputs = ExpectedPaths

\* C15 (amended): the same invocations, and when all succeed the returned
\* list has N entries, the i-th naming the i-th expected file: the expected
\* path itself for the k accepted clips and for clips the Runway generator
\* returned, its pathlib normal form for clips the Google generator returned
C15_ResumeGeneratesRest ==
    (call = "stitching" /\ resume) =>
        /\ CallsFromPrefix
        /\ (pc = "returned" /\ exc = "none") =>
               /\ Len(genCalls) = N - CompletePrefix
               /\ Len(outputs) = N
               /\ \A i \in 1..N :
                      /\ StrPath(outputs[i]) = StrPath(ExpectedPaths[i])
                      /\ (i <= CompletePrefix \/ provider # "veo3")
                             => outputs[i] = ExpectedPaths[i]

\* two of three files were complete; the Google generator produced the third
\* for a caller's path that is not in normal form
C15_Witness ==
    /\ call = "stitching" /\ resume /\ pc = "returned" /\ exc = "none"
    /\ N = 3 /\ CompletePrefix = 2 /\ Len(genCalls) = 1
    /\ provider = "veo3" /\ out_paths # <<>> /\ ~out_paths[3].norm
    /\ outputs[3] = StrPath(out_paths[3])

\* C16: the Resume Scanner's last frame is none when startIndex = 0, and
\* the extractor is not invoked then; when startIndex > 0 the extractor is
\* invoked exactly once, on the last accepted path, and the last frame is
\* its result, or none when it raised; the completed list and startIndex
\* are the same whether it raised or not
C16_ScannerLastFrame ==
    ScanReported =>
        /\ start_idx = 0 => (last_frame = None /\ extractCalls = <<>>)
        /\ start_idx > 0 =>
               /\ Len(extractCalls) = 1
               /\ extractCalls[1].path = ExpectedPaths[start_idx]
               /\ last_frame = IF extractCalls[1].ok
                               THEN FramePng(ExpectedPaths[start_idx])
                               ELSE None
        /\ start_idx = CompletePrefix
        /\ outputs = SubSeq(ExpectedPaths, 1, CompletePrefix)

\* two clips were accepted and the extraction from the second one raised
C16_Witness ==
    /\ ScanReported /\ N = 3 /\ start_idx = 2 /\ Len(outputs) = 2
    /\ Len(extractCalls) = 1 /\ ~extractCalls[1].ok /\ last_frame = None

\* C17 (claim): the Resume Scanner never raises: a failure of the existence
\* or size check of a path, or of the frame extraction, is absorbed and the
\* scanner still reports a valid resume state
C17_ScannerNeverRaises ==
    (call = "stitching" /\ resume) => origin # "scan"

\* what the Resume Scanner reports when it is run again on the filesystem as
\* it is now, ffmpeg behaving on the same clip as it did in the first scan
Rescan ==
    compute_resume_state(ExpectedPaths, fs,
                         extractCalls # <<>> /\ extractCalls[1].ok)

C19_FreshStart ==
    [][ (call = "stitching" /\ ~resume) =>
          /\ pc = "init" => origin' # "scan"
          /\ (pc = "init" /\ pc' = "loop") =>
                 /\ idx' = 0 /\ start_idx' = 0
                 /\ outputs' = <<>> /\ last_frame' = None
                 /\ extractCalls' = <<>>
          /\ (pc = "loop" /\ genCalls = <<>>) =>
                 /\ Len(genCalls') = 1
                 /\ genCalls'[1].idx = 0
                 /\ genCalls'[1].source_frame = None
                 /\ extractCalls' = <<>> ]_vars

\* all files of a two-clip run exist, and clip 0 is generated again
C19_Witness ==
    /\ call = "stitching" /\ ~resume /\ N = 2
    /\ fs0[1] = "data" /\ fs0[2] = "data"
    /\ Len(genCalls) = 1 /\ genCalls[1].idx = 0 /\ genCalls[1].existed
    /\ outputs = <<>> /\ extractCalls = <<>>

\* C20: with a positive delay the inter-clip wait happens once after each
\* generated clip but the last (N-1-s waits in a run that generates clips
\* s..N-1), after that clip's frame extraction and before the next
\* generation, never after clip N-1; with a delay of 0 there is no wait
C20_InterClipWaits ==
    call = "stitching" =>
        /\ pc \in {"generating", "extract"} =>
               waits = IF delay > 0 THEN idx - start_idx ELSE 0
        /\ pc = "sleep" =>
               /\ delay > 0 /\ idx < N - 1
               /\ waits = idx - start_idx + 1
               /\ Len(outputs) = idx + 1
               /\ extractCalls[Len(extractCalls)] = [path |-> video_path, ok |-> TRUE]
               /\ last_frame = FramePng(video_path)
        /\ (pc = "returned" /\ exc = "none" /\ start_idx < N) =>
               waits = IF delay > 0 THEN N - 1 - start_idx ELSE 0

\* a fresh run of three clips with a positive delay completed: two waits
C20_Witness ==
    /\ call = "stitching" /\ ~resume /\ N = 3 /\ delay > 0
    /\ pc = "returned" /\ exc = "none" /\ Len(outputs) = 3 /\ waits = 2

Abs(x) == IF x < 0 THEN 0 - x ELSE x

\* calculate_retry_delay was applied twice in a row, to a retry count of at
\* least 1 and to the next one
NextAttempt ==
    /\ fn = "calculate_retry_delay"
    /\ ret.done /\ ret'.done
    /\ ret.retry_count >= 1
    /\ ret'.retry_count = ret.retry_count + 1

\* C23 (as stated): the delay before jitter of attempt+1 is at least that of
\* attempt, and once it stops growing it equals cap
C23_Original ==
    [][ NextAttempt =>
          /\ ret'.delay >= ret.delay
          /\ ret'.delay = ret.delay =>
                 ret'.delay = arg.max_delay * TicksPerSecond ]_vars

\* C23 (amended): the delay before jitter of attempt+1 is at least that of
\* attempt, and once it stops growing it equals the smaller of cap and
\* sixteen times base
C23_BackoffMonotone ==
    [][ NextAttempt =>
          /\ ret'.delay >= ret.delay
          /\ ret'.delay = ret.delay =>
                 ret'.delay = Min(16 * arg.base_delay, arg.max_delay)
                                  * TicksPerSecond ]_vars

\* base 1 s and cap 300 s: at attempt 6 the delay has stopped at 16 s
C23_Witness ==
    /\ fn = "calculate_retry_delay" /\ ret.done
    /\ arg.base_delay = 1 /\ arg.max_delay = 300
    /\ ret.retry_count = 6
    /\ ret.delay = 16 * TicksPerSecond

C27_StitchModelCheck ==
    (fn = "validate_stitch_model" /\ ret.done) =>
        LET nm == arg.model.name
            veo == /\ arg.model.present
                   /\ Len(nm) >= 3
                   /\ nm[1] = "v" /\ nm[2] = "e" /\ nm[3] = "o"
        IN  ret.raised = IF veo THEN "none" ELSE "ValueError"

\* "Veo3" is rejected: the prefix is compared case by case
C27_Witness ==
    /\ fn = "validate_stitch_model" /\ ret.done
    /\ arg.model.name = << "V", "e", "o", "3" >>
    /\ ret.raised = "ValueError"

\* the providers other than prov whose table has model m
OtherProvidersWith(m, prov) ==
    { p \in { VideoProviders[k] : k \in 1..Len(VideoProviders) } :
        p # prov /\ Contains(get_available_models(p), m) }

\* C28: validate_model_for_provider returns iff the model is in the
\* provider's table; otherwise it raises ValueError, whose message names
\* every other provider that has the model when there is one, and lists all
\* models of the requested provider when there is none
C28_ModelForProvider ==
    (fn = "validate_model_for_provider" /\ ret.done) =>
        LET table == get_available_models(arg.provider)
            others == OtherProvidersWith(arg.model, arg.provider)
        IN  /\ ret.raised = IF Contains(table, arg.model)
                            THEN "none" ELSE "ValueError"
            /\ (ret.raised = "ValueError" /\ others # {}) =>
                   /\ Range(ret.message.providers) = others
                   /\ ret.message.available_models = <<>>
            /\ (ret.raised = "ValueError" /\ others = {}) =>
                   /\ ret.message.providers = <<>>
                   /\ ret.message.available_models = table

\* "sora-2" asked of google: the message names openai and azure
C28_Witness ==
    /\ fn = "validate_model_for_provider" /\ ret.done
    /\ arg.model = "sora-2" /\ arg.provider = "google"
    /\ ret.raised = "ValueError"
    /\ ret.message.providers = << "openai", "azure" >>

\* C29: build_expected_out_paths returns the caller's list unchanged when
\* there is one, and otherwise count paths "{prefix}_clip_{n}.mp4", n from 1
\* to count in order, with prefix "veo3" for provider veo3 and "runway_veo"
\* for every other provider
C29_ExpectedOutPaths ==
    (fn = "build_expected_out_paths" /\ ret.done) =>
        IF arg.out_paths # <<>>
        THEN ret.paths = arg.out_paths
        ELSE /\ Len(ret.paths) = arg.count
             /\ \A n \in 1..arg.count :
                    ret.paths[n] =
                        [ prefix |-> IF arg.provider = "veo3" THEN "veo3"
                                     ELSE "runway_veo",
                          n |-> n, norm |-> TRUE ]

\* three default paths for a provider that is neither veo3 nor runway
C29_Witness ==
    /\ fn = "build_expected_out_paths" /\ ret.done
    /\ arg.out_paths = <<>> /\ arg.count = 3 /\ arg.provider = "google"
    /\ ret.paths[3] = Path("runway_veo", 3, TRUE)

\* a generator call begins in this step
GenerationStarts == Len(genCalls') > Len(genCalls)

\* C21: the provider client works only inside the one generator call in
\* progress, and a generation starts only when no other is outstanding and,
\* after the first one, when the clip generated last has been written and
\* its frame extracted
C21_OneClipAtATime ==
    [][ /\ cpc' # "idle" => pc' = "generating"
        /\ GenerationStarts =>
              /\ cpc = "idle"
              /\ pc \in {"init", "loop"}
              /\ genCalls # <<>> =>
                    /\ video_path = returned_path(provider, CurrentCall.out_path)
                    /\ extractCalls # <<>>
                    /\ extractCalls[Len(extractCalls)] =
                           [path |-> video_path, ok |-> TRUE]
                    /\ outputs # <<>>
                    /\ outputs[Len(outputs)] = video_path ]_vars

\* the request of the third clip is outstanding: two clips were generated
\* and their frames extracted
C21_Witness ==
    /\ pc = "generating" /\ cpc = "request"
    /\ Len(genCalls) = 3 /\ start_idx = 0
    /\ Len(extractCalls) = 2

\* the delay before jitter at which a client's backoff stops growing
BackoffPlateau ==
    IF provider = "veo3" THEN retry.max_delay * TicksPerSecond
    ELSE Min(16 * retry.base_delay, retry.max_delay) * TicksPerSecond

\* every failure of the current generator call was followed by one backoff,
\* computed and waited on before the next send; when the call succeeded and
\* its frame was extracted, the clip's path is the last entry of the result
BackoffPerFailure ==
    /\ (pc = "generating" /\ cpc = "request") =>
           Len(delays) = attempt /\ sends = attempt
    /\ (pc = "generating" /\ cpc = "backoff") =>
           Len(delays) = attempt + 1 /\ sends = attempt + 1
    /\ (pc = "generating" /\ cpc \in {"poll", "save"}) =>
           Len(delays) = attempt /\ sends = attempt + 1
    /\ (pc = "sleep" \/ (pc = "loop" /\ genCalls # <<>>)) =>
           /\ Len(delays) = attempt /\ sends = attempt + 1
           /\ outputs # <<>>
           /\ outputs[Len(outputs)] = returned_path(provider, CurrentCall.out_path)

\* C22 (as stated): one backoff per transient failure, before the next
\* send; the delays before jitter are strictly increasing; the clip's path
\* appears in the result
C22_Original ==
    /\ BackoffPerFailure
    /\ \A k \in 1..(Len(delays) - 1) : delays[k + 1].delay > delays[k].delay

\* C22 (amended): one backoff per transient failure, before the next send;
\* the delays before jitter never decrease, and increase strictly until the
\* cap of the configuration (or sixteen times the base delay in the Runway
\* clients) is reached; the clip's path appears in the result
C22_BackoffPerFailure ==
    /\ BackoffPerFailure
    /\ \A k \in 1..(Len(delays) - 1) :
          \/ delays[k + 1].delay > delays[k].delay
          \/ /\ delays[k + 1].delay = delays[k].delay
             /\ delays[k].delay = BackoffPlateau

\* N = 2: the request of the first clip failed three times, succeeded at the
\* fourth send, and the clip is in the result; the Runway client waited 15,
\* 30 and 60 s before jitter
C22_Witness ==
    /\ N = 2 /\ pc \in {"sleep", "loop"} /\ Len(outputs) = 1
    /\ provider = "runway" /\ retry = DefaultRetry
    /\ attempt = 3 /\ sends = 4 /\ Len(delays) = 3
    /\ delays[1].delay * 2 = 15 * 2 * TicksPerSecond
    /\ delays[2].delay = 30 * TicksPerSecond
    /\ delays[3].delay = 60 * TicksPerSecond
    /\ outputs[1] = Path("runway_veo", 1, TRUE)

\* C25: in every generator call the k-th backoff is computed with attempt
\* number k - 1, so the first backoff of a clip uses attempt number 0
\* whatever the retries of the clip before it
C25_AttemptPerClip ==
    \A k \in 1..Len(delays) : delays[k].attempt = k - 1

\* the first backoff of the second clip, after a first clip that needed two
\* retries
C25_Witness ==
    /\ pc = "generating" /\ cpc = "backoff"
    /\ CurrentCall.idx = 1
    /\ prevRetries = 2
    /\ Len(delays) = 1 /\ delays[1].attempt = 0

\* C26: when a run stops on exhausted credits, the clip count of the
\* diagnostic is the number of clips completed, the length of the returned
\* list, and the total is N
C26_DiagnosticCountsCompleted ==
    diag # NoDiag =>
        /\ pc = "returned"
        /\ diag.clip = Len(outputs)
        /\ diag.total = N

\* the files of the run's expected paths, for a call of the orchestrator
PathsRun == call = "stitching" /\ Started

\* every generator call was given the expected path of its clip
GeneratedAtExpectedPath ==
    \A k \in 1..Len(genCalls) :
        /\ genCalls[k].idx + 1 <= Len(ExpectedPaths)
        /\ genCalls[k].out_path = ExpectedPaths[genCalls[k].idx + 1]

\* C30 (as stated): the path handed to the generator for clip i is the i-th
\* expected path, and the expected paths are N
C30_Original ==
    PathsRun => (GeneratedAtExpectedPath /\ Len(ExpectedPaths) = N)

\* C30 (amended): the path handed to the generator for clip i is the i-th
\* expected path; the expected paths are N when the default names are used
\* and as many as the caller's list otherwise, and a run that reaches a clip
\* beyond the caller's list ends with IndexError before generating it
C30_GeneratedAtExpectedPath ==
    PathsRun =>
        /\ GeneratedAtExpectedPath
        /\ Len(ExpectedPaths) = IF out_paths = <<>> THEN N ELSE Len(out_paths)
        /\ exc = "IndexError" =>
               /\ out_paths # <<>> /\ idx < N /\ idx = Len(out_paths)
               /\ \A k \in 1..Len(genCalls) : genCalls[k].idx < idx

\* three prompts and two paths: two clips were generated at the caller's
\* paths and the run ended with IndexError at the third
C30_Witness ==
    /\ PathsRun /\ N = 3 /\ Len(out_paths) = 2
    /\ pc = "raised" /\ exc = "IndexError"
    /\ Len(genCalls) = 2
    /\ genCalls[2].out_path = out_paths[2]

\* a stitched run of the Runway provider whose clips have no reference images
RunwayNoRefs == call = "stitching" /\ Started /\ provider = "runway" /\ ~refs

\* no generation request was sent, and the first generator call, if made,
\* ended the run with the exception of its entry
NoRequestSent ==
    /\ sends = 0 /\ cpc = "idle"
    /\ genCalls # <<>> =>
          /\ Len(genCalls) = 1
          /\ pc \in {"except", "raised"}
          /\ origin = "generator"
          /\ exc = IF impl = "video_generator" THEN "ValueError" ELSE "TypeError"

GoogleBackoff == fn = "calculate_backoff_delay" /\ ret.done

\* the delay before jitter of the shared policy at attempt n
SharedDelay(n) ==
    calculate_retry_delay(n, arg.base_delay, arg.max_delay,
                          RetryJitterPercent, 50).delay

\* C36 (as stated): at the n-th consecutive failure the Google client's delay
\* before jitter is min(base * 2^min(n-1, 4), cap), that of the shared
\* policy, and its delay after jitter is within the shared policy's bounds,
\* at least one second and within (j/2) of the delay before jitter
C36_Original ==
    GoogleBackoff =>
        LET n == ret.attempt + 1
            d == SharedDelay(n)
        IN  /\ ret.base_delay = d
            /\ ret.delay >= 1 * TicksPerSecond
            /\ 200 * Abs(ret.delay - d) <= RetryJitterPercent * d

\* C36 (amended): at the n-th consecutive failure the Google client's delay
\* before jitter is min(base * 2^(n-1), cap); it equals that of the shared
\* policy for n <= 5 or when sixteen times base reaches cap, and is never
\* below it; the delay after jitter is within 20 % of the delay before
\* jitter
C36_GoogleBackoff ==
    GoogleBackoff =>
        LET n == ret.attempt + 1
            d == ret.base_delay
        IN  /\ d = Min(arg.base_delay * Pow2(n - 1), arg.max_delay)
                       * TicksPerSecond
            /\ (n <= 5 \/ 16 * arg.base_delay >= arg.max_delay) =>
                   d = SharedDelay(n)
            /\ d >= SharedDelay(n)
            /\ 100 * Abs(ret.delay - d) <= 20 * d

\* base 1 s and cap 300 s: at the sixth failure the Google client waits 32 s
\* before jitter, the shared policy 16 s; the jitter took a fifth off
C36_Witness ==
    /\ GoogleBackoff
    /\ arg.base_delay = 1 /\ arg.max_delay = 300
    /\ ret.attempt = 5
    /\ ret.base_delay = 32 * TicksPerSecond
    /\ SharedDelay(6) = 16 * TicksPerSecond
    /\ 100 * ret.delay = 80 * ret.base_delay

\* C31: the k-th call of the shared backoff function made by a client's
\* retry loop passes attempt number k, so the first delay before jitter is
\* the base delay
C31_AttemptOneIndexed ==
    client \in SharedBackoffClients =>
        /\ \A k \in 1..Len(log) : log[k].passed = k
        /\ log # <<>> => log[1].delay = retry.base_delay * TicksPerSecond

\* the client handles the answer a to its generation request
HandlesAnswer(a) ==
    /\ client \in RequestClients
    /\ rpc = "answer" /\ rpc' # "answer"
    /\ answer.status \in a

\* C32: every client backs off after a 429 or a 503 answer to its generation
\* request and sends the request again; it does not raise
C32_RateLimitAndCapacityRetried ==
    [][ HandlesAnswer({"429", "429_quota", "503", "503_capacity"}) =>
            /\ rpc' = "backoff"
            /\ raised' = "none" ]_vars

\* C33: the Google client does not retry a 429 answer whose message is about
\* quota: its request loop ends with an error
C33_QuotaNotRetried ==
    [][ (client = "Veo3APIClient" /\ HandlesAnswer({"429_quota"})) =>
            /\ rpc' = "raised"
            /\ raised' # "none" ]_vars

\* the backoffs of the call that followed a 401 answer and a refresh of the
\* credentials
RefreshRetries == { k \in 1..Len(log) : log[k].status = "401" /\ log[k].refreshed }

\* C34: the Google client refreshes its credentials and retries after a 401
\* answer at most once in a generation call
C34_OneRefreshPerCall ==
    client = "Veo3APIClient" => Cardinality(RefreshRetries) <= 1

\* a Runway Veo or Gen-4 client polls a task that has finished, has failed,
\* or is answered with a 4xx status at every poll
PollsSettledTask ==
    /\ client \in {"RunwayVeoClient", "RunwayGen4Client"}
    /\ task \in {"SUCCEEDED", "FAILED", "GONE"}

\* C35: poll_task ends once the task has succeeded or failed or the polls
\* are answered with a persistent 4xx status: it returns the task data or
\* raises, and does not poll forever
C35_PollTaskTerminates ==
    PollsSettledTask ~> (rpc \in {"returned", "raised"})

\* C38: RunwayAlephClient.poll_task counts the timeouts and connection
\* errors of all its polls in one counter that no successful poll resets;
\* it goes on after the first and the second and raises "Max retries
\* exceeded" at the third
C38_AlephPollErrorBudget ==
    client = "RunwayAlephClient" =>
        /\ errors <= 3
        /\ rpc \in {"poll", "sleep", "returned"} =>
               (errors <= 2 /\ retryCount = errors)
        /\ rpc = "polled" =>
               retryCount + (IF answer.status \in TimeoutOrConnectionError
                             THEN 1 ELSE 0) = errors
        /\ raised = MaxRetriesExceeded <=> (rpc = "raised" /\ errors = 3)

\* the third error came after a successful poll, as the second did, and the
\* loop ended with "Max retries exceeded"
C38_Witness ==
    /\ client = "RunwayAlephClient"
    /\ rpc = "raised" /\ raised = MaxRetriesExceeded
    /\ errors = 3 /\ Len(log) = 3
    /\ log[2].after = "IN_PROGRESS"
    /\ log[3].after = "IN_PROGRESS"

=============================================================================
